---- MODULE Spec2Model ----
(***************************************************************************)
(* ZeroVault on-chain boundary: the marketplace (listing and settlement),  *)
(* the proof registry and the integration gate, as Move entry functions    *)
(* run inside transactions.  A transaction is a list of entry calls by one *)
(* sender; it commits all of its effects or, when any call aborts, none.   *)
(***************************************************************************)
EXTENDS Integers, Sequences, FiniteSets, TLC

VARIABLES datasets, total_datasets, proofs, total_proofs,
          received, spent, settled, ever_valid, last,
          policies, policies_created, configs, splits_made, backend

vars == <<datasets, total_datasets, proofs, total_proofs,
          received, spent, settled, ever_valid, last,
          policies, policies_created, configs, splits_made, backend>>

(***************************************************************************)
(* Bounds of the model.                                                    *)
(***************************************************************************)
\* Width of the unsigned integers standing for Move's u64 (scaled down).
U64Bits == 19
\* Number of dataset ids.
NumDatasets == 1
\* Number of distinct proof byte strings (registry keys).
NumProofs == 1

MAX_U64 == 2^U64Bits - 1
\* Transaction senders, and the addresses a buyer may name as the treasury:
\* one that also trades and one that does not.  NoAddress is @0x0.
Senders == {1, 2}
Treasuries == {2, 3}
Addr == Senders \cup Treasuries
NoAddress == 0
DatasetIds == 1..NumDatasets
ProofKeys == 1..NumProofs

(***************************************************************************)
(* Program constants.                                                      *)
(***************************************************************************)
platform_fee_percent == 3
PROOF_TYPE_AUTHENTICITY == 1
PROOF_TYPE_QUALITY == 2
MIN_VK_LEN == 128
INPUT_WORD == 32

OK == "OK"
E_ALREADY_LISTED == "marketplace::E_ALREADY_LISTED"
E_NOT_AVAILABLE == "marketplace::E_NOT_AVAILABLE"
E_NOT_FOUND == "marketplace::E_NOT_FOUND"
E_INSUFFICIENT_PAYMENT == "marketplace::E_INSUFFICIENT_PAYMENT"
E_INVALID_PRICE == "marketplace::E_INVALID_PRICE"
E_PROOF_NOT_VERIFIED == "zk_marketplace_integration::E_PROOF_NOT_VERIFIED"
E_CREATOR_MISMATCH == "zk_marketplace_integration::E_CREATOR_MISMATCH"
E_QUALITY_TOO_LOW == "zk_marketplace_integration::E_QUALITY_TOO_LOW"
\* Move aborts the transaction when u64 arithmetic overflows.
ARITHMETIC_ERROR == "ARITHMETIC_ERROR"
\* sui::groth16 aborts on bytes it cannot deserialize.
E_GROTH16 == "groth16::abort"
E_ZERO_MAX_USES == "access_policies::E_ZERO_MAX_USES"
E_USAGE_EXCEEDED == "access_policies::E_USAGE_EXCEEDED"
E_EXPIRED == "access_policies::E_EXPIRED"
E_NOT_CREATOR == "access_policies::E_NOT_CREATOR"
\* sui::vec_set::insert on a key the set already holds
E_KEY_ALREADY_EXISTS == "vec_set::EKeyAlreadyExists"
E_INVALID_PERCENTAGES == "royalty::E_INVALID_PERCENTAGES"

(***************************************************************************)
(* The world a transaction works on: the shared objects, the coin flows    *)
(* and the effects (events, transfers) of the running transaction.         *)
(***************************************************************************)
World ==
  [datasets |-> datasets, total_datasets |-> total_datasets,
   proofs |-> proofs, total_proofs |-> total_proofs,
   received |-> received, spent |-> spent, settled |-> settled,
   policies |-> policies, policies_created |-> policies_created,
   configs |-> configs, splits_made |-> splits_made,
   events |-> <<>>, transfers |-> <<>>, valid_writes |-> {},
   returned |-> <<>>, abort |-> OK]

AbortWith(w, code) == [w EXCEPT !.abort = code]

\* event::emit that loses the event.
emit_none(w, e) == w
emit(w, e) == [w EXCEPT !.events = Append(@, e)]

\* coin::value after coin::split(&mut coin, amount): the coin keeps the rest.
split_rest_keep(v, amount) == v
split_rest(v, amount) == v - amount

\* transfer::public_transfer of a coin of value `amount` to `to`, made by the
\* settlement of dataset d.
public_transfer(w, d, to, amount) ==
  [w EXCEPT !.received[to] = @ + amount,
            !.transfers = Append(@, [to |-> to, amount |-> amount]),
            !.settled[d] = Append(@, [to |-> to, amount |-> amount])]

\* The payment coin is passed by value: the sender gives it up.
take_payment(w, sender, paid) == [w EXCEPT !.spent[sender] = @ + paid]

(***************************************************************************)
(* Entry calls.  A call is a record naming the entry function and its      *)
(* arguments; arguments a function does not take are 0.                    *)
(***************************************************************************)
NoArgs ==
  [op |-> "none", dataset_id |-> 0, price |-> 0, walrus_blob_id |-> 0,
   seal_policy_id |-> 0, quality_score |-> 0, min_quality |-> 0, paid |-> 0,
   platform_treasury |-> 0, proof_key |-> 0, vk_len |-> 0, vk_type |-> 0,
   inputs_len |-> 0, pairing |-> "false", proof_type |-> 0,
   proof_keys |-> <<>>, now |-> 0, policy_id |-> 0,
   allowed_addresses |-> <<>>, expiry_timestamp |-> 0, max_uses |-> 0,
   addr |-> 0, creator_bps |-> 0, platform_bps |-> 0, reseller_bps |-> 0,
   creator_addr |-> 0, platform_addr |-> 0, reseller_addr |-> 0]

ListCall(d, price, blob, policy, q) ==
  [NoArgs EXCEPT !.op = "list_dataset", !.dataset_id = d, !.price = price,
                 !.walrus_blob_id = blob, !.seal_policy_id = policy,
                 !.quality_score = q]

PurchaseCall(d, paid, treasury) ==
  [NoArgs EXCEPT !.op = "purchase_dataset", !.dataset_id = d, !.paid = paid,
                 !.platform_treasury = treasury]

(***************************************************************************)
(* zk_data_vault::marketplace                                              *)
(***************************************************************************)
DatasetListing(d, sender, c) ==
  [dataset_id |-> d, original_creator |-> sender, seller |-> sender,
   price |-> c.price, walrus_blob_id |-> c.walrus_blob_id,
   seal_policy_id |-> c.seal_policy_id, quality_score |-> c.quality_score,
   is_available |-> TRUE]

\* table::contains(&marketplace.datasets, dataset_id)
contains(w, d) == d \in DOMAIN w.datasets

price_ok_any(price) == TRUE
price_ok(price) == price > 0

list_dataset(w, sender, c) ==
  IF ~price_ok(c.price) THEN AbortWith(w, E_INVALID_PRICE)
  ELSE IF contains(w, c.dataset_id) THEN AbortWith(w, E_ALREADY_LISTED)
  ELSE emit([w EXCEPT
               !.datasets = @ @@ (c.dataset_id :> DatasetListing(c.dataset_id, sender, c)),
               !.total_datasets = @ + 1],
            [type |-> "DatasetListed", dataset_id |-> c.dataset_id,
             seller |-> sender, price |-> c.price,
             quality_score |-> c.quality_score])

\* price * marketplace.platform_fee_percent / 100, in u64 arithmetic
fee_product(price) == price * platform_fee_percent
platform_fee_round_up(price) == (fee_product(price) + 99) \div 100
platform_fee_of(price) == fee_product(price) \div 100

paid_enough_any(paid, price) == TRUE
paid_enough(paid, price) == paid >= price

mark_sold_free(w, d) ==
  [w EXCEPT !.datasets[d].is_available = FALSE, !.datasets[d].price = 0]
mark_sold_noop(w, d) == w
mark_sold(w, d) == [w EXCEPT !.datasets[d].is_available = FALSE]

\* let refund = paid - price;
refund_none(paid, price) == 0
refund_of(paid, price) == paid - price

\* The settlement of an available listing whose price the payment covers.
settle(w, sender, c, listing) ==
  LET d == c.dataset_id
      price == listing.price
      paid == c.paid
      refund == refund_of(paid, price)
      w0 == take_payment(w, sender, paid)
      w1 == IF refund > 0 THEN public_transfer(w0, d, sender, refund) ELSE w0
      v1 == IF refund > 0 THEN split_rest(paid, refund) ELSE paid
  IN IF fee_product(price) > MAX_U64 THEN AbortWith(w1, ARITHMETIC_ERROR)
     ELSE LET platform_fee == platform_fee_of(price)
              w2 == IF platform_fee > 0
                    THEN public_transfer(w1, d, c.platform_treasury, platform_fee)
                    ELSE w1
              v2 == IF platform_fee > 0 THEN split_rest(v1, platform_fee) ELSE v1
              w3 == public_transfer(w2, d, listing.original_creator, v2)
              w4 == mark_sold(w3, d)
              creator_royalty == price - platform_fee
          IN emit(emit(w4, [type |-> "DatasetPurchased", dataset_id |-> d,
                            buyer |-> sender, amount |-> price,
                            platform_fee |-> platform_fee,
                            creator_royalty |-> creator_royalty]),
                  [type |-> "DecryptionGranted", dataset_id |-> d,
                   buyer |-> sender,
                   seal_policy_id |-> listing.seal_policy_id])

available_any(listing) == TRUE
available(listing) == listing.is_available

purchase_dataset(w, sender, c) ==
  IF ~contains(w, c.dataset_id) THEN AbortWith(w, E_NOT_FOUND)
  ELSE LET listing == w.datasets[c.dataset_id]
       IN IF ~available(listing) THEN AbortWith(w, E_NOT_AVAILABLE)
          ELSE IF ~paid_enough(c.paid, listing.price)
               THEN AbortWith(w, E_INSUFFICIENT_PAYMENT)
               ELSE settle(w, sender, c, listing)

(***************************************************************************)
(* zk_data_vault::zk_verifier                                              *)
(***************************************************************************)
VerifyCall(op, key, vk_len, vk_type, inputs_len, pairing) ==
  [NoArgs EXCEPT !.op = op, !.proof_key = key, !.vk_len = vk_len,
                 !.vk_type = vk_type, !.inputs_len = inputs_len,
                 !.pairing = pairing]

BatchCall(keys, vk_type, proof_type, now) ==
  [NoArgs EXCEPT !.op = "batch_verify_proofs", !.proof_keys = keys,
                 !.vk_type = vk_type, !.proof_type = proof_type, !.now = now]

ProofRecord(creator, proof_type, verified_at, is_valid) ==
  [creator |-> creator, proof_type |-> proof_type,
   verified_at |-> verified_at, is_valid |-> is_valid]

\* upsert_record that leaves the creator of an existing record as it was.
upsert_record_keep_creator(w, proof_key, creator, proof_type, verified_at, is_valid) ==
  LET exists == proof_key \in DOMAIN w.proofs
      w1 == IF exists
            THEN [w EXCEPT !.proofs[proof_key].proof_type = proof_type,
                           !.proofs[proof_key].verified_at = verified_at,
                           !.proofs[proof_key].is_valid = is_valid]
            ELSE [w EXCEPT !.proofs = @ @@ (proof_key :>
                               ProofRecord(creator, proof_type, verified_at, is_valid)),
                           !.total_proofs = @ + 1]
      w2 == [w1 EXCEPT !.valid_writes =
                         IF is_valid THEN @ \cup {proof_key} ELSE @ \ {proof_key}]
  IN emit(w2, [type |-> "ProofVerified", creator |-> creator,
               proof_type |-> proof_type, verified_at |-> verified_at,
               is_valid |-> is_valid])

\* upsert_record that counts every submission, new key or not.
upsert_record_always_counts(w, proof_key, creator, proof_type, verified_at, is_valid) ==
  LET exists == proof_key \in DOMAIN w.proofs
      w1 == IF exists
            THEN [w EXCEPT !.proofs[proof_key].creator = creator,
                           !.proofs[proof_key].proof_type = proof_type,
                           !.proofs[proof_key].verified_at = verified_at,
                           !.proofs[proof_key].is_valid = is_valid,
                           !.total_proofs = @ + 1]
            ELSE [w EXCEPT !.proofs = @ @@ (proof_key :>
                               ProofRecord(creator, proof_type, verified_at, is_valid)),
                           !.total_proofs = @ + 1]
      w2 == [w1 EXCEPT !.valid_writes =
                         IF is_valid THEN @ \cup {proof_key} ELSE @ \ {proof_key}]
  IN emit(w2, [type |-> "ProofVerified", creator |-> creator,
               proof_type |-> proof_type, verified_at |-> verified_at,
               is_valid |-> is_valid])

upsert_record(w, proof_key, creator, proof_type, verified_at, is_valid) ==
  LET exists == proof_key \in DOMAIN w.proofs
      w1 == IF exists
            THEN [w EXCEPT !.proofs[proof_key].creator = creator,
                           !.proofs[proof_key].proof_type = proof_type,
                           !.proofs[proof_key].verified_at = verified_at,
                           !.proofs[proof_key].is_valid = is_valid]
            ELSE [w EXCEPT !.proofs = @ @@ (proof_key :>
                               ProofRecord(creator, proof_type, verified_at, is_valid)),
                           !.total_proofs = @ + 1]
      w2 == [w1 EXCEPT !.valid_writes =
                         IF is_valid THEN @ \cup {proof_key} ELSE @ \ {proof_key}]
  IN emit(w2, [type |-> "ProofVerified", creator |-> creator,
               proof_type |-> proof_type, verified_at |-> verified_at,
               is_valid |-> is_valid])

\* verify_proof that hands the bytes to sui::groth16 whatever their lengths.
verify_proof_unchecked(w, sender, c, proof_type) ==
  LET w1 == emit(w, [type |-> "ProofSubmitted", creator |-> sender,
                     proof_type |-> proof_type, submitted_at |-> 0])
  IN IF c.pairing = "abort" THEN AbortWith(w1, E_GROTH16)
     ELSE upsert_record(w1, c.proof_key, sender, proof_type, 0,
                        c.pairing = "true")

\* The body shared by verify_data_authenticity and verify_quality_proof; the
\* outcome of sui::groth16 on the given bytes is the call's `pairing`.
verify_proof(w, sender, c, proof_type) ==
  LET w1 == emit(w, [type |-> "ProofSubmitted", creator |-> sender,
                     proof_type |-> proof_type, submitted_at |-> 0])
  IN IF c.vk_len >= MIN_VK_LEN /\ c.inputs_len % INPUT_WORD = 0
     THEN IF c.pairing = "abort" THEN AbortWith(w1, E_GROTH16)
          ELSE upsert_record(w1, c.proof_key, sender, proof_type, 0,
                             c.pairing = "true")
     ELSE upsert_record(w1, c.proof_key, sender, proof_type, 0, FALSE)

verify_data_authenticity(w, sender, c) ==
  verify_proof(w, sender, c, PROOF_TYPE_AUTHENTICITY)

\* verify_quality_proof that records the authenticity family.
verify_quality_proof_as_authenticity(w, sender, c) ==
  verify_proof(w, sender, c, PROOF_TYPE_AUTHENTICITY)

verify_quality_proof(w, sender, c) ==
  verify_proof(w, sender, c, PROOF_TYPE_QUALITY)

\* The validity batch_verify_proofs records for every key of the batch.
batch_is_valid_trusting(c) == TRUE
batch_is_valid(c) == FALSE

RECURSIVE batch_loop(_, _, _, _)
batch_loop(w, sender, c, i) ==
  IF i > Len(c.proof_keys) THEN w
  ELSE batch_loop(upsert_record(w, c.proof_keys[i], sender, c.proof_type,
                                c.now, batch_is_valid(c)),
                  sender, c, i + 1)

batch_verify_proofs(w, sender, c) == batch_loop(w, sender, c, 1)

\* is_proof_verified that takes an absent key for a verified one.
is_proof_verified_absent(w, proof_key) ==
  IF proof_key \notin DOMAIN w.proofs THEN TRUE
  ELSE w.proofs[proof_key].is_valid

is_proof_verified(w, proof_key) ==
  IF proof_key \notin DOMAIN w.proofs THEN FALSE
  ELSE w.proofs[proof_key].is_valid

get_proof_record(w, proof_key) ==
  IF proof_key \notin DOMAIN w.proofs THEN ProofRecord(NoAddress, 0, 0, FALSE)
  ELSE w.proofs[proof_key]

(***************************************************************************)
(* zk_data_vault::zk_marketplace_integration                               *)
(***************************************************************************)
GatedListCall(key, d, price, blob, policy, q, min_q) ==
  [ListCall(d, price, blob, policy, q) EXCEPT
     !.op = "list_dataset_with_zk_proof", !.proof_key = key,
     !.min_quality = min_q]

GatedPurchaseCall(key, d, paid, treasury) ==
  [PurchaseCall(d, paid, treasury) EXCEPT
     !.op = "purchase_with_zk_verification", !.proof_key = key]

quality_ok(quality_score, min_quality) == quality_score >= min_quality

creator_ok_any(proof_creator, sender) == TRUE
creator_ok(proof_creator, sender) == proof_creator = sender

list_dataset_with_zk_proof(w, sender, c) ==
  IF ~is_proof_verified(w, c.proof_key) THEN AbortWith(w, E_PROOF_NOT_VERIFIED)
  ELSE LET rec == get_proof_record(w, c.proof_key)
       IN IF ~rec.is_valid THEN AbortWith(w, E_PROOF_NOT_VERIFIED)
          ELSE IF ~creator_ok(rec.creator, sender)
               THEN AbortWith(w, E_CREATOR_MISMATCH)
          ELSE IF ~quality_ok(c.quality_score, c.min_quality)
               THEN AbortWith(w, E_QUALITY_TOO_LOW)
          ELSE LET w1 == list_dataset(w, sender, c)
               IN IF w1.abort # OK THEN w1
                  ELSE emit(w1, [type |-> "DatasetVerifiedAndListed",
                                 dataset_id |-> c.dataset_id,
                                 creator |-> sender,
                                 proof_type |-> rec.proof_type,
                                 verified_at |-> rec.verified_at,
                                 quality_score |-> c.quality_score])

purchase_ungated(w, sender, c) == purchase_dataset(w, sender, c)
purchase_with_zk_verification(w, sender, c) ==
  IF ~is_proof_verified(w, c.proof_key) THEN AbortWith(w, E_PROOF_NOT_VERIFIED)
  ELSE LET rec == get_proof_record(w, c.proof_key)
       IN IF ~rec.is_valid THEN AbortWith(w, E_PROOF_NOT_VERIFIED)
          ELSE purchase_dataset(w, sender, c)

(***************************************************************************)
(* zk_data_vault::access_policies                                          *)
(***************************************************************************)
CreatePolicyCall(allowed, expiry, max_uses) ==
  [NoArgs EXCEPT !.op = "create_policy", !.allowed_addresses = allowed,
                 !.expiry_timestamp = expiry, !.max_uses = max_uses]

\* check_access(policy, addr, now) and increment_usage(policy, accessor, now)
PolicyCall(op, id, addr, now) ==
  [NoArgs EXCEPT !.op = op, !.policy_id = id, !.addr = addr, !.now = now]

\* The value a call hands back to its transaction.
return(w, v) == [w EXCEPT !.returned = Append(@, v)]

\* vecset::insert aborts on an address that is already in the set.
RECURSIVE insert_all(_, _, _)
insert_all(set, allowed_addresses, i) ==
  IF i > Len(allowed_addresses) THEN [set |-> set, abort |-> OK]
  ELSE IF allowed_addresses[i] \in set
       THEN [set |-> set, abort |-> E_KEY_ALREADY_EXISTS]
       ELSE insert_all(set \cup {allowed_addresses[i]}, allowed_addresses, i + 1)

AccessPolicy(set, c, creator) ==
  [allowed_addresses |-> set, expiry_timestamp |-> c.expiry_timestamp,
   max_uses |-> c.max_uses, current_uses |-> 0, is_active |-> TRUE,
   creator |-> creator]

max_uses_ok_any(max_uses) == TRUE
max_uses_ok(max_uses) == max_uses > 0

\* The new object's UID is a fresh one; the policy is kept under it.
create_policy(w, sender, c) ==
  IF ~max_uses_ok(c.max_uses) THEN AbortWith(w, E_ZERO_MAX_USES)
  ELSE LET policy_id == w.policies_created + 1
           ins == insert_all({}, c.allowed_addresses, 1)
       IN IF ins.abort # OK THEN AbortWith(w, ins.abort)
          ELSE emit([w EXCEPT !.policies_created = policy_id,
                              !.policies = @ @@ (policy_id :>
                                  AccessPolicy(ins.set, c, sender))],
                    [type |-> "PolicyCreated", policy_id |-> policy_id,
                     creator |-> sender,
                     expiry_timestamp |-> c.expiry_timestamp,
                     max_uses |-> c.max_uses])

\* check_access that does not look at the allowed set.
check_access_anyone(policy, addr, now) ==
  IF ~policy.is_active THEN FALSE
  ELSE IF now > policy.expiry_timestamp THEN FALSE
  ELSE IF policy.current_uses >= policy.max_uses THEN FALSE
  ELSE TRUE

\* check_access that does not look at the time.
check_access_timeless(policy, addr, now) ==
  IF ~policy.is_active THEN FALSE
  ELSE IF policy.current_uses >= policy.max_uses THEN FALSE
  ELSE addr \in policy.allowed_addresses

check_access(policy, addr, now) ==
  IF ~policy.is_active THEN FALSE
  ELSE IF now > policy.expiry_timestamp THEN FALSE
  ELSE IF policy.current_uses >= policy.max_uses THEN FALSE
  ELSE addr \in policy.allowed_addresses

uses_left_any(policy) == TRUE
uses_left(policy) == policy.current_uses < policy.max_uses

still_active_any(policy) == TRUE
still_active(policy) == policy.is_active

increment_usage(w, sender, c) ==
  LET policy == w.policies[c.policy_id]
  IN IF ~still_active(policy) THEN AbortWith(w, E_EXPIRED)
     ELSE IF ~(c.now <= policy.expiry_timestamp) THEN AbortWith(w, E_EXPIRED)
     ELSE IF ~uses_left(policy) THEN AbortWith(w, E_USAGE_EXCEEDED)
     ELSE emit([w EXCEPT !.policies[c.policy_id].current_uses = @ + 1],
               [type |-> "AccessGranted", policy_id |-> c.policy_id,
                accessor |-> c.addr,
                current_uses |-> policy.current_uses + 1])

\* revoke_policy that lets any sender revoke.
revoke_policy_anyone(w, sender, c) ==
  [w EXCEPT !.policies[c.policy_id].is_active = FALSE]

revoke_policy(w, sender, c) ==
  IF sender # w.policies[c.policy_id].creator THEN AbortWith(w, E_NOT_CREATOR)
  ELSE [w EXCEPT !.policies[c.policy_id].is_active = FALSE]

\* burn that leaves the policy in existence.
burn_keep(w, sender, c) == w

\* The policy is taken by value and its UID deleted.
burn(w, sender, c) ==
  [w EXCEPT !.policies = [id \in DOMAIN @ \ {c.policy_id} |-> @[id]]]

(***************************************************************************)
(* zk_data_vault::royalty                                                  *)
(***************************************************************************)
\* 100% in basis points
BPS_TOTAL == 10000

CreateConfigCall(creator_bps, platform_bps, reseller_bps) ==
  [NoArgs EXCEPT !.op = "create_config", !.creator_bps = creator_bps,
                 !.platform_bps = platform_bps, !.reseller_bps = reseller_bps]

DefaultConfigCall == [NoArgs EXCEPT !.op = "default_config"]

\* split_payment(cfg, payment, creator_addr, platform_addr, reseller_addr)
SplitPaymentCall(cfg, paid, creator_addr, platform_addr, reseller_addr) ==
  [NoArgs EXCEPT !.op = "split_payment", !.creator_bps = cfg.creator_bps,
                 !.platform_bps = cfg.platform_bps,
                 !.reseller_bps = cfg.reseller_bps, !.paid = paid,
                 !.creator_addr = creator_addr,
                 !.platform_addr = platform_addr,
                 !.reseller_addr = reseller_addr]

RoyaltyConfig(creator_bps, platform_bps, reseller_bps) ==
  [creator_bps |-> creator_bps, platform_bps |-> platform_bps,
   reseller_bps |-> reseller_bps]

bps_sum_ok_any(total) == TRUE
bps_sum_ok(total) == total = BPS_TOTAL

create_config(w, sender, c) ==
  LET total == c.creator_bps + c.platform_bps + c.reseller_bps
  IN IF total > MAX_U64 THEN AbortWith(w, ARITHMETIC_ERROR)
     ELSE IF ~bps_sum_ok(total) THEN AbortWith(w, E_INVALID_PERCENTAGES)
     ELSE LET cfg == RoyaltyConfig(c.creator_bps, c.platform_bps,
                                   c.reseller_bps)
          IN return([w EXCEPT !.configs = @ \cup {cfg}], cfg)

default_config(w, sender, c) ==
  create_config(w, sender, CreateConfigCall(1000, 300, 8700))

\* transfer::public_transfer of a coin that settles no listing
transfer_coin(w, to, amount) ==
  [w EXCEPT !.received[to] = @ + amount,
            !.transfers = Append(@, [to |-> to, amount |-> amount])]

\* a * b does not fit in a u64
mul_overflows(a, b) == b > 0 /\ a > MAX_U64 \div b

share_round_up(total, bps) == (total * bps + BPS_TOTAL - 1) \div BPS_TOTAL
\* The share of `total` that `bps` basis points are, rounded down.
share(total, bps) == (total * bps) \div BPS_TOTAL

split_payment(w, sender, c) ==
  LET total_bps == c.creator_bps + c.platform_bps + c.reseller_bps
      total == c.paid
  IN IF total_bps > MAX_U64 THEN AbortWith(w, ARITHMETIC_ERROR)
     ELSE IF total_bps # BPS_TOTAL THEN AbortWith(w, E_INVALID_PERCENTAGES)
     ELSE IF mul_overflows(total, c.creator_bps)
               \/ mul_overflows(total, c.platform_bps)
          THEN AbortWith(w, ARITHMETIC_ERROR)
     ELSE LET creator_amount == share(total, c.creator_bps)
              platform_amount == share(total, c.platform_bps)
              reseller_amount == total - creator_amount - platform_amount
              w0 == take_payment(w, sender, total)
              w1 == IF creator_amount > 0
                    THEN transfer_coin(w0, c.creator_addr, creator_amount)
                    ELSE w0
              v1 == IF creator_amount > 0
                    THEN split_rest(total, creator_amount) ELSE total
              w2 == IF platform_amount > 0
                    THEN transfer_coin(w1, c.platform_addr, platform_amount)
                    ELSE w1
              v2 == IF platform_amount > 0
                    THEN split_rest(v1, platform_amount) ELSE v1
              w3 == transfer_coin(w2, c.reseller_addr, v2)
          IN emit([w3 EXCEPT !.splits_made = @ + 1],
                  [type |-> "RoyaltyPaid", total_amount |-> total,
                   creator_amount |-> creator_amount,
                   platform_amount |-> platform_amount,
                   reseller_amount |-> reseller_amount,
                   creator |-> c.creator_addr, platform |-> c.platform_addr,
                   reseller |-> c.reseller_addr])

(***************************************************************************)
(* Transactions.                                                           *)
(***************************************************************************)
Exec(w, sender, c) ==
  CASE c.op = "list_dataset" -> list_dataset(w, sender, c)
    [] c.op = "purchase_dataset" -> purchase_dataset(w, sender, c)
    [] c.op = "verify_data_authenticity" -> verify_data_authenticity(w, sender, c)
    [] c.op = "verify_quality_proof" -> verify_quality_proof(w, sender, c)
    [] c.op = "batch_verify_proofs" -> batch_verify_proofs(w, sender, c)
    [] c.op = "list_dataset_with_zk_proof" -> list_dataset_with_zk_proof(w, sender, c)
    [] c.op = "purchase_with_zk_verification" ->
         purchase_with_zk_verification(w, sender, c)
    [] c.op = "create_policy" -> create_policy(w, sender, c)
    [] c.op = "check_access" ->
         return(w, check_access(w.policies[c.policy_id], c.addr, c.now))
    [] c.op = "increment_usage" -> increment_usage(w, sender, c)
    [] c.op = "revoke_policy" -> revoke_policy(w, sender, c)
    [] c.op = "burn" -> burn(w, sender, c)
    [] c.op = "create_config" -> create_config(w, sender, c)
    [] c.op = "default_config" -> default_config(w, sender, c)
    [] c.op = "split_payment" -> split_payment(w, sender, c)

\* The calls of a transaction run in order; an abort ends the transaction.
RECURSIVE Run(_, _, _, _)
Run(w, sender, cmds, i) ==
  IF i > Len(cmds) \/ w.abort # OK THEN w
  ELSE Run(Exec(w, sender, cmds[i]), sender, cmds, i + 1)

\* An aborted transaction leaves no effect: no write, no transfer, no event.
Outcome(w0, w) ==
  IF w.abort = OK THEN w
  ELSE [w0 EXCEPT !.abort = w.abort]

\* What the transaction of `sender` made of `cmds` does to the current state.
Result(sender, cmds) == Outcome(World, Run(World, sender, cmds, 1))

\* What is kept of the calls of the last transaction: the entry function, the
\* registry key it named, the lengths of the verification key and public
\* inputs it was given, and the policy, address and time it named (0 when it
\* takes none).
CallsOf(cmds) ==
  [i \in 1..Len(cmds) |->
     [op |-> cmds[i].op, proof_key |-> cmds[i].proof_key,
      vk_len |-> cmds[i].vk_len, inputs_len |-> cmds[i].inputs_len,
      policy_id |-> cmds[i].policy_id, addr |-> cmds[i].addr,
      now |-> cmds[i].now]]

Tx(sender, cmds) ==
  \E w \in {Result(sender, cmds)} :
     /\ datasets' = w.datasets
     /\ total_datasets' = w.total_datasets
     /\ proofs' = w.proofs
     /\ total_proofs' = w.total_proofs
     /\ received' = w.received
     /\ spent' = w.spent
     /\ settled' = w.settled
     /\ ever_valid' = ever_valid \cup w.valid_writes
     /\ policies' = w.policies
     /\ policies_created' = w.policies_created
     /\ configs' = w.configs
     /\ splits_made' = w.splits_made
     /\ UNCHANGED backend
     /\ last' = [calls |-> CallsOf(cmds), status |-> w.abort,
                 events |-> w.events, transfers |-> w.transfers,
                 returned |-> w.returned]

EmptyTable == [k \in {} |-> 0]

Init ==
  /\ datasets = EmptyTable
  /\ total_datasets = 0
  /\ proofs = EmptyTable
  /\ total_proofs = 0
  /\ received = [a \in Addr |-> 0]
  /\ spent = [a \in Addr |-> 0]
  /\ settled = [d \in DatasetIds |-> <<>>]
  /\ ever_valid = {}
  /\ policies = EmptyTable
  /\ policies_created = 0
  /\ configs = {}
  /\ splits_made = 0
  /\ last = [calls |-> <<>>, status |-> OK, events |-> <<>>, transfers |-> <<>>,
             returned |-> <<>>]
  /\ backend = [accessGrants |-> {}, attestations |-> <<>>,
                verified_confirms |-> {}, ZK_FAKE_VALID |-> "0"]

(***************************************************************************)
(* Marketplace runs: listing and purchase transactions of one call each.   *)
(***************************************************************************)
Prices == {0, 33, 12345, 100000, 400000}
Payments == {10000, 12345, 12346, 400000}
Blobs == {5}
Policies == {7}
Qualities == {90}

ListCalls ==
  {ListCall(d, price, blob, policy, q) :
     d \in DatasetIds, price \in Prices, blob \in Blobs,
     policy \in Policies, q \in Qualities}

PurchaseCalls ==
  {PurchaseCall(d, paid, treasury) :
     d \in DatasetIds, paid \in Payments, treasury \in Treasuries}

ListDataset ==
  \E sender \in Senders, c \in ListCalls : Tx(sender, <<c>>)

PurchaseDataset ==
  \E sender \in Senders, c \in PurchaseCalls : Tx(sender, <<c>>)

Next ==
  \/ ListDataset
  \/ PurchaseDataset

Spec == Init /\ [][Next]_vars

(***************************************************************************)
(* Properties of the settlement.                                           *)
(***************************************************************************)
Transfer(to, amount) == [to |-> to, amount |-> amount]

RECURSIVE SumAmounts(_)
SumAmounts(T) == IF T = <<>> THEN 0 ELSE Head(T).amount + SumAmounts(Tail(T))

RECURSIVE SumOver(_, _)
SumOver(f, S) ==
  IF S = {} THEN 0
  ELSE LET a == CHOOSE x \in S : TRUE IN f[a] + SumOver(f, S \ {a})

Listed(d) == d \in DOMAIN datasets
Sold(d) == Listed(d) /\ ~datasets[d].is_available
ForSale(d) == Listed(d) /\ datasets[d].is_available

\* Nothing of the state differs in w from the state the transaction met.
NoEffect(w) ==
  /\ w.datasets = datasets /\ w.total_datasets = total_datasets
  /\ w.proofs = proofs /\ w.total_proofs = total_proofs
  /\ w.received = received /\ w.spent = spent /\ w.settled = settled
  /\ w.policies = policies /\ w.policies_created = policies_created
  /\ w.configs = configs /\ w.splits_made = splits_made
  /\ w.events = <<>> /\ w.transfers = <<>>

\* The transfers of a settlement after its refund, if there is one.
AfterRefund(T, paid, price) == IF paid > price THEN Tail(T) ELSE T

LastWas(op, status) ==
  Len(last.calls) = 1 /\ last.calls[1].op = op /\ last.status = status

C3_RefundIsExcess ==
  \A sender \in Senders, c \in PurchaseCalls :
    LET w == Result(sender, <<c>>)
    IN w.abort = OK =>
         LET price == datasets[c.dataset_id].price
             creator == datasets[c.dataset_id].original_creator
             T == w.transfers
         IN /\ c.paid >= price
            /\ c.paid > price => T[1] = Transfer(sender, c.paid - price)
            /\ c.paid = price => \A i \in 1..Len(T) : T[i].to # sender
                                    \/ sender \in {creator, c.platform_treasury}
            /\ Len(T) = Len(AfterRefund(T, c.paid, price))
                          + (IF c.paid > price THEN 1 ELSE 0)
            /\ Len(AfterRefund(T, c.paid, price)) \in {1, 2}
            /\ SumAmounts(T) = c.paid
            /\ w.spent[sender] - spent[sender] = c.paid
            /\ sender \notin {creator, c.platform_treasury} =>
                 (w.spent[sender] - spent[sender])
                 - (w.received[sender] - received[sender]) = price

C3_Witness ==
  /\ LastWas("purchase_dataset", OK)
  /\ last.events[1].amount = 12345
  /\ last.transfers[1].amount = 1
  /\ last.transfers[1].to = last.events[1].buyer

\* C4: purchase_dataset of a listing that is for sale, with a payment below
\* its price, aborts with E_INSUFFICIENT_PAYMENT and changes nothing: no
\* listing field, no coin, no event.
C4_InsufficientPaymentNoEffect ==
  \A sender \in Senders, c \in PurchaseCalls :
    (ForSale(c.dataset_id) /\ c.paid < datasets[c.dataset_id].price) =>
      LET w == Result(sender, <<c>>)
      IN w.abort = E_INSUFFICIENT_PAYMENT /\ NoEffect(w)

C4_Witness ==
  /\ LastWas("purchase_dataset", E_INSUFFICIENT_PAYMENT)
  /\ \E d \in DatasetIds : ForSale(d) /\ datasets[d].price > 10000

\* C5: a listing is settled at most once.  In every reachable state and for
\* every list or purchase transaction that may come next: a sold listing
\* stays sold, unchanged, and its settlement is not added to; a listing
\* leaves "for sale" only by a successful purchase of it, which is also the
\* only step that adds to its settlement; and every purchase of a sold
\* dataset, whatever the payment, aborts with E_NOT_AVAILABLE and moves no
\* coin.
C5_SoldOnceForever ==
  \A sender \in Senders, c \in ListCalls \cup PurchaseCalls :
    LET w == Result(sender, <<c>>)
    IN /\ \A d \in DatasetIds :
            /\ Sold(d) => /\ w.datasets[d] = datasets[d]
                          /\ w.settled[d] = settled[d]
            /\ (ForSale(d) /\ ~w.datasets[d].is_available) =>
                 /\ w.abort = OK
                 /\ c.op = "purchase_dataset" /\ c.dataset_id = d
            /\ w.settled[d] # settled[d] =>
                 ForSale(d) /\ ~w.datasets[d].is_available
            /\ Listed(d) => d \in DOMAIN w.datasets
       /\ (c.op = "purchase_dataset" /\ Sold(c.dataset_id)) =>
            w.abort = E_NOT_AVAILABLE /\ NoEffect(w)

C5_Witness ==
  /\ LastWas("purchase_dataset", E_NOT_AVAILABLE)
  /\ \E d \in DatasetIds : Sold(d) /\ Len(settled[d]) >= 1

\* The coins a full settlement of `listing` sends: at most one refund, the
\* platform fee when it is not 0, and the rest of the price to the original
\* creator, in this order.
FullSettlement(T, listing) ==
  LET price == listing.price
      fee == (price * 3) \div 100
      n == Len(T)
      fees == IF fee > 0 THEN 1 ELSE 0
  IN /\ n >= 1 + fees /\ n <= 2 + fees
     /\ T[n] = Transfer(listing.original_creator, price - fee)
     /\ fee > 0 => T[n - 1].amount = fee /\ T[n - 1].to \in Treasuries
     /\ n = 2 + fees => T[1].amount > 0 /\ T[1].to \in Senders

\* C6: purchase is atomic.  In every reachable state a listing is unavailable
\* exactly when its settlement has been applied in full, a dataset that is
\* not sold has had no transfer at all, and every coin taken as payment has
\* been paid out.
C6_SoldIffSettledInFull ==
  /\ \A d \in DatasetIds :
       /\ Sold(d) <=> (Listed(d) /\ FullSettlement(settled[d], datasets[d]))
       /\ ~Sold(d) <=> settled[d] = <<>>
  /\ SumOver(spent, Addr) = SumOver(received, Addr)
  /\ SumOver(received, Addr) =
       SumOver([d \in DatasetIds |-> SumAmounts(settled[d])], DatasetIds)

C6_Witness ==
  /\ \E d \in DatasetIds : Sold(d) /\ Len(settled[d]) = 3
  /\ LastWas("purchase_dataset", OK)

\* C7: list_dataset aborts and changes nothing when the price is 0 or the
\* dataset id already has a listing, sold or not; so in every reachable
\* state each listing has a positive price, is stored under its own id, and
\* the marketplace counts exactly one listing per listed id.
C7_ListRejectsZeroAndDuplicate ==
  /\ \A sender \in Senders, c \in ListCalls :
       LET w == Result(sender, <<c>>)
       IN /\ c.price = 0 => w.abort = E_INVALID_PRICE /\ NoEffect(w)
          /\ (c.price > 0 /\ Listed(c.dataset_id)) =>
               w.abort = E_ALREADY_LISTED /\ NoEffect(w)
          /\ (c.price > 0 /\ ~Listed(c.dataset_id)) =>
               /\ w.abort = OK
               /\ w.datasets[c.dataset_id].is_available
               /\ Len(w.events) = 1
  /\ \A d \in DOMAIN datasets :
       datasets[d].price > 0 /\ datasets[d].dataset_id = d
  /\ total_datasets = Cardinality(DOMAIN datasets)

C7_Witness ==
  /\ LastWas("list_dataset", E_ALREADY_LISTED)
  /\ \E d \in DatasetIds : Sold(d)

(***************************************************************************)
(* Integration runs: the registry's entry points and the gated listing and *)
(* purchase, one call per transaction, on one dataset.                     *)
(***************************************************************************)
GateDatasets == {1}
GatePrices == {0, 100}
GatePayments == {50, 150}
GateTreasuries == {3}
GateQualities == {40, 90}
MinQualities == {50}
\* (length of vk_bytes, length of public_inputs, outcome of sui::groth16):
\* a proof that verifies, one that does not, and a key too short to try.
GateProofs == {<<128, 32, "true">>, <<128, 32, "false">>, <<14, 32, "true">>}

GateVerifyCalls(op, vk_type) ==
  {VerifyCall(op, k, p[1], vk_type, p[2], p[3]) :
     k \in ProofKeys, p \in GateProofs}

GatedListCalls ==
  {GatedListCall(k, d, price, blob, policy, q, min_q) :
     k \in ProofKeys, d \in GateDatasets, price \in GatePrices, blob \in Blobs,
     policy \in Policies, q \in GateQualities, min_q \in MinQualities}

GatedPurchaseCalls ==
  {GatedPurchaseCall(k, d, paid, treasury) :
     k \in ProofKeys, d \in GateDatasets, paid \in GatePayments,
     treasury \in GateTreasuries}

VerifyDataAuthenticity ==
  \E sender \in Senders,
     c \in GateVerifyCalls("verify_data_authenticity", PROOF_TYPE_AUTHENTICITY) :
    Tx(sender, <<c>>)

VerifyQualityProof ==
  \E sender \in Senders,
     c \in GateVerifyCalls("verify_quality_proof", PROOF_TYPE_QUALITY) :
    Tx(sender, <<c>>)

ListDatasetWithZkProof ==
  \E sender \in Senders, c \in GatedListCalls : Tx(sender, <<c>>)

PurchaseWithZkVerification ==
  \E sender \in Senders, c \in GatedPurchaseCalls : Tx(sender, <<c>>)

NextGate ==
  \/ VerifyDataAuthenticity
  \/ VerifyQualityProof
  \/ ListDatasetWithZkProof
  \/ PurchaseWithZkVerification

SpecGate == Init /\ [][NextGate]_vars

(***************************************************************************)
(* Properties of the integration gate.                                     *)
(***************************************************************************)
Recorded(k) == k \in DOMAIN proofs
RecordedValid(k) == Recorded(k) /\ proofs[k].is_valid

\* The plain call a gated call delegates to.
Plain(c, op) == [c EXCEPT !.op = op]

\* C8: list_dataset_with_zk_proof aborts, creating no listing and leaving no
\* effect, when the proof key is not in the registry, is recorded as not
\* valid, was recorded by another sender than the caller, or the quality
\* score is below min_quality; when all four checks pass it does what
\* list_dataset does with the same arguments (and then emits its own event).
C8_GatedListingChecks ==
  \A sender \in Senders, c \in GatedListCalls :
    LET w == Result(sender, <<c>>)
        k == c.proof_key
        plain == Result(sender, <<Plain(c, "list_dataset")>>)
    IN /\ ~RecordedValid(k) => w.abort = E_PROOF_NOT_VERIFIED /\ NoEffect(w)
       /\ (RecordedValid(k) /\ proofs[k].creator # sender) =>
            w.abort = E_CREATOR_MISMATCH /\ NoEffect(w)
       /\ (RecordedValid(k) /\ proofs[k].creator = sender
             /\ c.quality_score < c.min_quality) =>
            w.abort = E_QUALITY_TOO_LOW /\ NoEffect(w)
       /\ (RecordedValid(k) /\ proofs[k].creator = sender
             /\ c.quality_score >= c.min_quality) =>
            /\ w.abort = plain.abort
            /\ w.datasets = plain.datasets
            /\ w.total_datasets = plain.total_datasets
            /\ w.abort = OK =>
                 /\ Len(w.events) = 2
                 /\ w.events[1] = plain.events[1]
                 /\ w.events[2].type = "DatasetVerifiedAndListed"
       /\ w.abort = OK => w.datasets[c.dataset_id].original_creator = proofs[k].creator

C8_Witness ==
  /\ LastWas("list_dataset_with_zk_proof", E_CREATOR_MISMATCH)
  /\ RecordedValid(last.calls[1].proof_key)
  /\ datasets = EmptyTable

\* C9 as claimed: purchase_with_zk_verification settles only if the proof key
\* is recorded, its validity flag is true and the record's submitter is the
\* caller.
C9_Original ==
  LastWas("purchase_with_zk_verification", OK) =>
    /\ RecordedValid(last.calls[1].proof_key)
    /\ proofs[last.calls[1].proof_key].creator = last.events[1].buyer

\* C9: purchase_with_zk_verification settles only if the proof key is
\* recorded in the registry with validity true, whoever submitted it;
\* otherwise it aborts with no transfer and the listing unchanged.  With a
\* valid record it does exactly what purchase_dataset does with the same
\* arguments.
C9_GatedPurchaseChecksValidityOnly ==
  \A sender \in Senders, c \in GatedPurchaseCalls :
    LET w == Result(sender, <<c>>)
        plain == Result(sender, <<Plain(c, "purchase_dataset")>>)
    IN /\ ~RecordedValid(c.proof_key) =>
            w.abort = E_PROOF_NOT_VERIFIED /\ NoEffect(w)
       /\ RecordedValid(c.proof_key) =>
            /\ w.abort = plain.abort
            /\ w.datasets = plain.datasets
            /\ w.transfers = plain.transfers
            /\ w.events = plain.events
            /\ w.received = plain.received /\ w.spent = plain.spent

\* A buyer settles a purchase through the gate with a proof that the seller
\* submitted.
C9_Witness ==
  /\ LastWas("purchase_with_zk_verification", OK)
  /\ RecordedValid(last.calls[1].proof_key)
  /\ proofs[last.calls[1].proof_key].creator # last.events[1].buyer

(***************************************************************************)
(* Ordering runs: one sender, one dataset, transactions of one call or of  *)
(* a registry write followed by a gated action.                            *)
(***************************************************************************)
OrderingSenders == {1}
\* sui::clock::timestamp_ms read by batch_verify_proofs
Clock == {1700}

RegistryWrites ==
  {VerifyCall("verify_data_authenticity", k, 128, PROOF_TYPE_AUTHENTICITY,
              32, pairing) : k \in ProofKeys, pairing \in {"true", "false"}}
  \cup {VerifyCall("verify_quality_proof", k, 128, PROOF_TYPE_QUALITY,
                   32, pairing) : k \in ProofKeys, pairing \in {"true", "false"}}
  \cup {BatchCall(<<k>>, PROOF_TYPE_AUTHENTICITY, PROOF_TYPE_AUTHENTICITY, now) :
          k \in ProofKeys, now \in Clock}

GatedActions ==
  {GatedListCall(k, d, 100, blob, policy, 90, min_q) :
     k \in ProofKeys, d \in GateDatasets, blob \in Blobs, policy \in Policies,
     min_q \in MinQualities}
  \cup {GatedPurchaseCall(k, d, 150, treasury) :
          k \in ProofKeys, d \in GateDatasets, treasury \in GateTreasuries}

OrderingTxs ==
  {<<c>> : c \in RegistryWrites \cup GatedActions}
  \cup {<<c1, c2>> : c1 \in RegistryWrites, c2 \in GatedActions}

SingleCall ==
  \E sender \in OrderingSenders, c \in RegistryWrites \cup GatedActions :
    Tx(sender, <<c>>)

WriteThenAct ==
  \E sender \in OrderingSenders, c1 \in RegistryWrites, c2 \in GatedActions :
    Tx(sender, <<c1, c2>>)

NextOrdering ==
  \/ SingleCall
  \/ WriteThenAct

SpecOrdering == Init /\ [][NextOrdering]_vars

GatedOps == {"list_dataset_with_zk_proof", "purchase_with_zk_verification"}

\* The call is a verification that records key k as valid.
VerifiesValid(c, k) ==
  /\ c.op \in {"verify_data_authenticity", "verify_quality_proof"}
  /\ c.proof_key = k
  /\ c.vk_len >= MIN_VK_LEN /\ c.inputs_len % INPUT_WORD = 0
  /\ c.pairing = "true"

\* C10 as claimed: every gated listing or purchase that succeeds names a proof
\* key that a transaction committed before this one recorded as valid; it
\* cannot succeed in the transaction that performs the verification.
C10_Original ==
  [][ \A i \in 1..Len(last'.calls) :
        (last'.status = OK /\ last'.calls[i].op \in GatedOps) =>
          last'.calls[i].proof_key \in ever_valid ]_vars

\* C10: every gated listing or purchase that succeeds is preceded by a
\* verification that recorded the same proof key as valid, either in a
\* transaction committed earlier or earlier in the same transaction; the
\* gated action aborts when neither is the case.  When no registry write
\* precedes it in its transaction the record it reads is the committed one.
C10_VerifiedBeforeGatedAction ==
  \A sender \in OrderingSenders, cmds \in OrderingTxs :
    LET w == Result(sender, cmds)
    IN \A i \in 1..Len(cmds) :
         (w.abort = OK /\ cmds[i].op \in GatedOps) =>
           /\ \/ cmds[i].proof_key \in ever_valid
              \/ \E j \in 1..(i - 1) : VerifiesValid(cmds[j], cmds[i].proof_key)
           /\ i = 1 => RecordedValid(cmds[i].proof_key)
           /\ i = 2 => is_proof_verified(Exec(World, sender, cmds[1]),
                                         cmds[i].proof_key)

\* A gated listing succeeded in the transaction that verified its proof.
C10_Witness ==
  /\ last.status = OK
  /\ Len(last.calls) = 2
  /\ last.calls[1].op = "verify_data_authenticity"
  /\ last.calls[2].op = "list_dataset_with_zk_proof"
  /\ last.calls[1].proof_key = last.calls[2].proof_key
  /\ Listed(1)

(***************************************************************************)
(* Registry runs: the three entry points that write the proof registry,    *)
(* one call per transaction.                                               *)
(***************************************************************************)
\* Longest list of proof keys handed to batch_verify_proofs.
MaxBatch == 2

\* (length of vk_bytes, length of public_inputs, outcome of sui::groth16):
\* a proof that verifies, one that does not, proof bytes sui::groth16 cannot
\* decode, a key too short to try and public inputs that are not whole
\* 32-byte words.
RegistryProofs ==
  {<<128, 32, "true">>, <<128, 32, "false">>, <<128, 32, "abort">>,
   <<14, 32, "true">>, <<128, 33, "true">>}

\* sui::clock::timestamp_ms read by batch_verify_proofs
RegistryClock == {1700}

RegistryVerifyCalls(op, vk_type) ==
  {VerifyCall(op, k, p[1], vk_type, p[2], p[3]) :
     k \in ProofKeys, p \in RegistryProofs}

\* The proof_type argument of batch_verify_proofs is any u8 the caller likes.
BatchProofTypes == {PROOF_TYPE_AUTHENTICITY, PROOF_TYPE_QUALITY, 7}

BatchKeyLists == UNION {[1..n -> ProofKeys] : n \in 0..MaxBatch}

RegistryBatchCalls ==
  {BatchCall(keys, PROOF_TYPE_AUTHENTICITY, t, now) :
     keys \in BatchKeyLists, t \in BatchProofTypes, now \in RegistryClock}

RegistryCalls ==
  RegistryVerifyCalls("verify_data_authenticity", PROOF_TYPE_AUTHENTICITY)
  \cup RegistryVerifyCalls("verify_quality_proof", PROOF_TYPE_QUALITY)
  \cup RegistryBatchCalls

RegistryVerifyDataAuthenticity ==
  \E sender \in Senders,
     c \in RegistryVerifyCalls("verify_data_authenticity",
                               PROOF_TYPE_AUTHENTICITY) :
    Tx(sender, <<c>>)

RegistryVerifyQualityProof ==
  \E sender \in Senders,
     c \in RegistryVerifyCalls("verify_quality_proof", PROOF_TYPE_QUALITY) :
    Tx(sender, <<c>>)

RegistryBatchVerifyProofs ==
  \E sender \in Senders, c \in RegistryBatchCalls : Tx(sender, <<c>>)

NextRegistry ==
  \/ RegistryVerifyDataAuthenticity
  \/ RegistryVerifyQualityProof
  \/ RegistryBatchVerifyProofs

SpecRegistry == Init /\ [][NextRegistry]_vars

(***************************************************************************)
(* Properties of the proof registry.                                       *)
(***************************************************************************)
Validities == {TRUE, FALSE}
Timestamps == {0} \cup RegistryClock
Families == BatchProofTypes

\* The keys a registry call submits.
KeysOf(c) ==
  IF c.op = "batch_verify_proofs"
  THEN {c.proof_keys[i] : i \in 1..Len(c.proof_keys)}
  ELSE {c.proof_key}

\* The family an entry point records.
FamilyOf(c) ==
  CASE c.op = "verify_data_authenticity" -> PROOF_TYPE_AUTHENTICITY
    [] c.op = "verify_quality_proof" -> PROOF_TYPE_QUALITY
    [] c.op = "batch_verify_proofs" -> c.proof_type

\* C11: the registry upsert overwrites: after a submission of a proof key the
\* registry holds one record for that key, whose submitter, family, timestamp
\* and validity are those of that submission, whatever record the key had
\* before and whoever submitted it; the other keys keep their records.  So
\* after two submissions of one key the record is that of the second.  The
\* same holds of every entry point that submits, in every reachable state.
C11_UpsertKeepsLatest ==
  /\ \A k \in ProofKeys, sender \in Senders, t \in Families,
        at \in Timestamps, valid \in Validities :
       LET w == upsert_record(World, k, sender, t, at, valid)
       IN /\ DOMAIN w.proofs = DOMAIN proofs \cup {k}
          /\ w.proofs[k] = [creator |-> sender, proof_type |-> t,
                            verified_at |-> at, is_valid |-> valid]
          /\ \A other \in DOMAIN proofs \ {k} : w.proofs[other] = proofs[other]
  /\ \A sender \in Senders, c \in RegistryCalls :
       LET w == Result(sender, <<c>>)
       IN w.abort = OK =>
            /\ DOMAIN w.proofs = DOMAIN proofs \cup KeysOf(c)
            /\ \A k \in KeysOf(c) :
                 /\ w.proofs[k].creator = sender
                 /\ w.proofs[k].proof_type = FamilyOf(c)
                 /\ w.proofs[k].verified_at =
                      (IF c.op = "batch_verify_proofs" THEN c.now ELSE 0)
            /\ \A other \in DOMAIN proofs \ KeysOf(c) :
                 w.proofs[other] = proofs[other]

\* A key that was once recorded valid by one sender now has the record of a
\* later submission by another sender, of another family and not valid.
C11_Witness ==
  /\ 1 \in ever_valid
  /\ Recorded(1)
  /\ ~proofs[1].is_valid
  /\ proofs[1].creator = 2
  /\ proofs[1].proof_type = PROOF_TYPE_QUALITY
  /\ total_proofs = 1
  /\ last.status = OK

\* C12: in every reachable state total_proofs is the number of distinct proof
\* keys recorded.  A submission adds one to it exactly when the key was not
\* recorded before and leaves it alone on a resubmission; no entry point
\* lowers it or removes a record, and an aborted call changes nothing.
C12_TotalCountsDistinctKeys ==
  /\ total_proofs = Cardinality(DOMAIN proofs)
  /\ \A k \in ProofKeys, sender \in Senders, t \in Families,
        at \in Timestamps, valid \in Validities :
       upsert_record(World, k, sender, t, at, valid).total_proofs =
         IF Recorded(k) THEN total_proofs ELSE total_proofs + 1
  /\ \A sender \in Senders, c \in RegistryCalls :
       LET w == Result(sender, <<c>>)
       IN /\ DOMAIN proofs \subseteq DOMAIN w.proofs
          /\ w.total_proofs >= total_proofs
          /\ w.total_proofs = Cardinality(DOMAIN w.proofs)
          /\ w.abort = OK =>
               w.total_proofs =
                 total_proofs + Cardinality(KeysOf(c) \ DOMAIN proofs)
          /\ w.abort # OK =>
               w.total_proofs = total_proofs /\ w.proofs = proofs

\* A batch that names the same, already recorded key twice left the counter
\* at one.
C12_Witness ==
  /\ last.status = OK
  /\ Len(last.calls) = 1
  /\ last.calls[1].op = "batch_verify_proofs"
  /\ Len(last.events) = 2
  /\ 1 \in ever_valid
  /\ total_proofs = 1

\* The keys queried: those submissions use and one that is never submitted.
QueryKeys == ProofKeys \cup {NumProofs + 1}

\* C13: for every registry state and every proof key, is_proof_verified is
\* false when the key is not recorded and the record's validity flag when it
\* is; get_proof_record is (0x0, 0, 0, false) when the key is not recorded and
\* the stored (creator, proof_type, verified_at, is_valid) when it is; so
\* is_proof_verified equals the fourth component of get_proof_record.
C13_RegistryQueries ==
  \A k \in QueryKeys :
    /\ ~Recorded(k) =>
         /\ is_proof_verified(World, k) = FALSE
         /\ get_proof_record(World, k) =
              [creator |-> 0, proof_type |-> 0, verified_at |-> 0,
               is_valid |-> FALSE]
    /\ Recorded(k) =>
         /\ is_proof_verified(World, k) = proofs[k].is_valid
         /\ get_proof_record(World, k) = proofs[k]
    /\ is_proof_verified(World, k) = get_proof_record(World, k).is_valid

\* The registry holds a valid record, which the queries report, next to a key
\* it does not hold.
C13_Witness ==
  /\ RecordedValid(1)
  /\ is_proof_verified(World, 1)
  /\ get_proof_record(World, 1).creator = 2
  /\ ~Recorded(NumProofs + 1)
  /\ ~is_proof_verified(World, NumProofs + 1)

\* Lengths of vk_bytes and of public_inputs tried, around the two limits.
VkLens == {0, 14, 127, 128, 129}
InputLens == {0, 31, 32, 33, 64}
Pairings == {"true", "false", "abort"}

\* C14: when vk_bytes is shorter than 128 bytes or the length of public_inputs
\* is not a multiple of 32, verify_data_authenticity and verify_quality_proof
\* do not abort, whatever sui::groth16 would make of the bytes: they emit
\* their two events and write a record for the proof bytes with validity
\* false, the caller as creator and the entry point's family, so that
\* is_proof_verified is false for it.
C14_MalformedRecordsInvalid ==
  \A sender \in Senders, k \in ProofKeys,
     op \in {"verify_data_authenticity", "verify_quality_proof"},
     vk_len \in VkLens, inputs_len \in InputLens, pairing \in Pairings :
    (vk_len < 128 \/ inputs_len % 32 # 0) =>
      LET c == VerifyCall(op, k, vk_len, FamilyOf([op |-> op]), inputs_len,
                          pairing)
          w == Result(sender, <<c>>)
      IN /\ w.abort = OK
         /\ k \in DOMAIN w.proofs
         /\ w.proofs[k] = [creator |-> sender,
                           proof_type |-> FamilyOf([op |-> op]),
                           verified_at |-> 0, is_valid |-> FALSE]
         /\ ~is_proof_verified(w, k)
         /\ Len(w.events) = 2
         /\ w.events[1].type = "ProofSubmitted"
         /\ w.events[2].type = "ProofVerified" /\ ~w.events[2].is_valid

\* A call with a 14-byte verification key committed and replaced a valid
\* record by one that is not valid.
C14_Witness ==
  /\ last.status = OK
  /\ Len(last.calls) = 1
  /\ last.calls[1].op = "verify_quality_proof"
  /\ last.calls[1].vk_len < 128
  /\ last.calls[1].proof_key \in ever_valid
  /\ Recorded(last.calls[1].proof_key)
  /\ ~proofs[last.calls[1].proof_key].is_valid
  /\ proofs[last.calls[1].proof_key].proof_type = PROOF_TYPE_QUALITY

\* C15 as claimed: every entry point that writes a proof record emits a
\* ProofSubmitted event before the verification and a ProofVerified event
\* after it, so that every ProofVerified event of a transaction comes after a
\* ProofSubmitted event of the same creator and proof type.
C15_Original ==
  \A i \in 1..Len(last.events) :
    last.events[i].type = "ProofVerified" =>
      \E j \in 1..(i - 1) :
        /\ last.events[j].type = "ProofSubmitted"
        /\ last.events[j].creator = last.events[i].creator
        /\ last.events[j].proof_type = last.events[i].proof_type

\* C16 as claimed: batch_verify_proofs records every key of the batch against
\* the given proof type with the validity the caller supplies, here what the
\* proofs handed in verify to.
C16_Original ==
  \A sender \in Senders, c \in RegistryBatchCalls, supplied \in Validities :
    LET call == [c EXCEPT !.pairing = IF supplied THEN "true" ELSE "false"]
        w == Result(sender, <<call>>)
    IN \A k \in KeysOf(call) :
         /\ k \in DOMAIN w.proofs
         /\ w.proofs[k].proof_type = call.proof_type
         /\ w.proofs[k].is_valid = supplied

(***************************************************************************)
(* Policy runs: access policies are created, checked, used, revoked and    *)
(* burned, one call per transaction.                                       *)
(***************************************************************************)
\* Number of policies created in a run.
MaxPolicies == 1
\* Largest max_uses given to create_policy.
MaxUses == 2

\* allowed_addresses: one address, and the same address twice.
AllowedLists == {<<1>>, <<1, 1>>}
Expiries == {1000}
\* The `now` handed to check_access and increment_usage: at and after expiry.
Nows == {1000, 1001}

CreatePolicyCalls ==
  {CreatePolicyCall(allowed, expiry, max_uses) :
     allowed \in AllowedLists, expiry \in Expiries, max_uses \in 0..MaxUses}

PolicyCalls(op) ==
  {PolicyCall(op, id, addr, now) :
     id \in DOMAIN policies, addr \in Senders, now \in Nows}

CreatePolicy ==
  /\ policies_created < MaxPolicies
  /\ \E sender \in Senders, c \in CreatePolicyCalls : Tx(sender, <<c>>)

CheckAccess ==
  \E sender \in Senders, c \in PolicyCalls("check_access") : Tx(sender, <<c>>)

IncrementUsage ==
  \E sender \in Senders, c \in PolicyCalls("increment_usage") :
    Tx(sender, <<c>>)

RevokePolicy ==
  \E sender \in Senders, id \in DOMAIN policies :
    Tx(sender, <<PolicyCall("revoke_policy", id, 0, 0)>>)

Burn ==
  \E sender \in Senders, id \in DOMAIN policies :
    Tx(sender, <<PolicyCall("burn", id, 0, 0)>>)

NextPolicy ==
  \/ CreatePolicy
  \/ CheckAccess
  \/ IncrementUsage
  \/ RevokePolicy
  \/ Burn

SpecPolicy == Init /\ [][NextPolicy]_vars

(***************************************************************************)
(* Properties of access policies.                                          *)
(***************************************************************************)
\* C17: every access policy of every reachable state has current_uses <=
\* max_uses and max_uses > 0, whatever sequence of create_policy,
\* check_access, increment_usage and revoke_policy calls led there.
C17_UsesWithinMax ==
  \A id \in DOMAIN policies :
    /\ policies[id].current_uses <= policies[id].max_uses
    /\ policies[id].max_uses > 0

\* A policy used up to its max_uses has just refused one more use.
C17_Witness ==
  /\ LastWas("increment_usage", E_USAGE_EXCEEDED)
  /\ policies[last.calls[1].policy_id].max_uses = 2
  /\ policies[last.calls[1].policy_id].current_uses = 2

\* The times asked about: before, at and after the expiry.
AskedNows == Nows \cup {0, 999}

\* Every call the policy runs can make on the policies that exist.
AllPolicyCalls ==
  PolicyCalls("check_access") \cup PolicyCalls("increment_usage")
  \cup {PolicyCall(op, id, 0, 0) :
          op \in {"revoke_policy", "burn"}, id \in DOMAIN policies}

\* C18: check_access(policy, addr, now) is true if and only if the policy is
\* active, now <= expiry_timestamp, current_uses < max_uses and addr is in
\* allowed_addresses; the call changes no policy and emits nothing.
C18_CheckAccessIff ==
  \A id \in DOMAIN policies, addr \in Senders, now \in AskedNows :
    LET policy == policies[id]
        w == Result(addr, <<PolicyCall("check_access", id, addr, now)>>)
    IN /\ check_access(policy, addr, now) <=>
            /\ policy.is_active
            /\ now <= policy.expiry_timestamp
            /\ policy.current_uses < policy.max_uses
            /\ addr \in policy.allowed_addresses
       /\ w.abort = OK
       /\ NoEffect(w)
       /\ w.returned = <<check_access(policy, addr, now)>>

\* An active, unexpired policy with uses left refused an address that is not
\* in its allowed set.
C18_Witness ==
  /\ LastWas("check_access", OK)
  /\ last.returned = <<FALSE>>
  /\ last.calls[1].policy_id \in DOMAIN policies
  /\ policies[last.calls[1].policy_id].is_active
  /\ last.calls[1].now <= policies[last.calls[1].policy_id].expiry_timestamp
  /\ policies[last.calls[1].policy_id].current_uses = 0
  /\ last.calls[1].addr \notin policies[last.calls[1].policy_id].allowed_addresses

\* C19: for a policy that is expired (now > expiry_timestamp) or exhausted
\* (current_uses = max_uses) check_access is false for every address, also
\* while the policy is active and, when expired, with uses left.  Exhaustion
\* is permanent: no call lowers current_uses or changes max_uses or
\* expiry_timestamp of a policy, so an exhausted policy is exhausted after
\* every call that leaves it in existence.
C19_ExpiredOrExhaustedDenied ==
  /\ \A id \in DOMAIN policies, addr \in Senders, now \in AskedNows :
       (now > policies[id].expiry_timestamp
          \/ policies[id].current_uses = policies[id].max_uses) =>
         ~check_access(policies[id], addr, now)
  /\ \A sender \in Senders, c \in AllPolicyCalls :
       LET w == Result(sender, <<c>>)
       IN \A id \in DOMAIN policies \cap DOMAIN w.policies :
            /\ w.policies[id].current_uses >= policies[id].current_uses
            /\ w.policies[id].max_uses = policies[id].max_uses
            /\ w.policies[id].expiry_timestamp = policies[id].expiry_timestamp
            /\ policies[id].current_uses = policies[id].max_uses =>
                 \A addr \in Senders, now \in AskedNows :
                   ~check_access(w.policies[id], addr, now)

\* An active policy with uses left refused an allowed address after its
\* expiry.
C19_Witness ==
  /\ LastWas("check_access", OK)
  /\ last.returned = <<FALSE>>
  /\ last.calls[1].policy_id \in DOMAIN policies
  /\ policies[last.calls[1].policy_id].is_active
  /\ policies[last.calls[1].policy_id].current_uses = 0
  /\ last.calls[1].now > policies[last.calls[1].policy_id].expiry_timestamp
  /\ last.calls[1].addr \in policies[last.calls[1].policy_id].allowed_addresses

\* n calls of increment_usage on one policy, in one transaction.
Increments(id, addr, now, n) ==
  [i \in 1..n |-> PolicyCall("increment_usage", id, addr, now)]

\* C20: increment_usage aborts with no state change when the policy is not
\* active, when now > expiry_timestamp, or when current_uses has reached
\* max_uses (E_USAGE_EXCEEDED); otherwise it adds exactly one to current_uses
\* and emits one AccessGranted event.  So on an unused, active, unexpired
\* policy with max_uses = n, n increments succeed and one more aborts with
\* E_USAGE_EXCEEDED, leaving the policy as it was.
C20_IncrementUsage ==
  /\ \A sender \in Senders, c \in PolicyCalls("increment_usage") :
       LET policy == policies[c.policy_id]
           w == Result(sender, <<c>>)
       IN /\ ~policy.is_active => w.abort = E_EXPIRED /\ NoEffect(w)
          /\ c.now > policy.expiry_timestamp =>
               w.abort = E_EXPIRED /\ NoEffect(w)
          /\ (policy.is_active /\ c.now <= policy.expiry_timestamp
                /\ policy.current_uses >= policy.max_uses) =>
               w.abort = E_USAGE_EXCEEDED /\ NoEffect(w)
          /\ (policy.is_active /\ c.now <= policy.expiry_timestamp
                /\ policy.current_uses < policy.max_uses) =>
               /\ w.abort = OK
               /\ w.policies =
                    [policies EXCEPT ![c.policy_id].current_uses = @ + 1]
               /\ Len(w.events) = 1
               /\ w.events[1] =
                    [type |-> "AccessGranted", policy_id |-> c.policy_id,
                     accessor |-> c.addr,
                     current_uses |-> policy.current_uses + 1]
  /\ \A id \in DOMAIN policies, addr \in Senders :
       LET policy == policies[id]
           now == policy.expiry_timestamp
           n == policy.max_uses
       IN (policy.is_active /\ policy.current_uses = 0) =>
            /\ \A m \in 0..n :
                 LET w == Result(addr, Increments(id, addr, now, m))
                 IN w.abort = OK /\ w.policies[id].current_uses = m
            /\ LET w == Result(addr, Increments(id, addr, now, n + 1))
               IN w.abort = E_USAGE_EXCEEDED /\ NoEffect(w)

\* A policy with max_uses = 1 was used once and has just refused a second use.
C20_Witness ==
  /\ LastWas("increment_usage", E_USAGE_EXCEEDED)
  /\ policies[last.calls[1].policy_id].max_uses = 1
  /\ policies[last.calls[1].policy_id].current_uses = 1
  /\ policies[last.calls[1].policy_id].is_active

\* C21: revoke_policy aborts and changes nothing unless the sender is the
\* policy's creator; when it succeeds it sets is_active to false and leaves
\* current_uses, max_uses, expiry_timestamp and allowed_addresses as they
\* were.  No call makes a policy that is not active active again, so after a
\* revoke check_access is false and increment_usage aborts for as long as the
\* policy exists.
C21_RevokeOwnerOnlyAndFinal ==
  /\ \A sender \in Senders, id \in DOMAIN policies :
       LET w == Result(sender, <<PolicyCall("revoke_policy", id, 0, 0)>>)
       IN /\ sender # policies[id].creator =>
               w.abort = E_NOT_CREATOR /\ NoEffect(w)
          /\ sender = policies[id].creator =>
               /\ w.abort = OK
               /\ w.policies = [policies EXCEPT ![id].is_active = FALSE]
               /\ w.events = <<>>
  /\ \A sender \in Senders, c \in AllPolicyCalls :
       LET w == Result(sender, <<c>>)
       IN \A id \in DOMAIN policies \cap DOMAIN w.policies :
            ~policies[id].is_active =>
              /\ ~w.policies[id].is_active
              /\ \A addr \in Senders, now \in AskedNows :
                   /\ ~check_access(w.policies[id], addr, now)
                   /\ increment_usage(w, addr,
                                       PolicyCall("increment_usage", id, addr,
                                                  now)).abort = E_EXPIRED

\* A revoked policy that has uses left and is not expired has just refused a
\* use; its usage count is what it was before the revoke.
C21_Witness ==
  /\ LastWas("increment_usage", E_EXPIRED)
  /\ ~policies[last.calls[1].policy_id].is_active
  /\ last.calls[1].now <= policies[last.calls[1].policy_id].expiry_timestamp
  /\ policies[last.calls[1].policy_id].current_uses = 1
  /\ policies[last.calls[1].policy_id].max_uses = 2

\* The set of the addresses of a list.
Range(list) == {list[i] : i \in 1..Len(list)}

\* C22 as claimed: create_policy aborts, creating no policy and emitting no
\* event, if max_uses = 0; otherwise it creates a policy with current_uses =
\* 0, is_active = true, the sender as creator and the set of the supplied
\* addresses as allowed_addresses.
C22_Original ==
  \A sender \in Senders, c \in CreatePolicyCalls :
    LET w == Result(sender, <<c>>)
        id == policies_created + 1
    IN /\ c.max_uses = 0 => w.abort = E_ZERO_MAX_USES /\ NoEffect(w)
       /\ c.max_uses > 0 =>
            /\ w.abort = OK
            /\ DOMAIN w.policies = DOMAIN policies \cup {id}
            /\ w.policies[id] =
                 [allowed_addresses |-> Range(c.allowed_addresses),
                  expiry_timestamp |-> c.expiry_timestamp,
                  max_uses |-> c.max_uses, current_uses |-> 0,
                  is_active |-> TRUE, creator |-> sender]

\* The policies that were created and exist no more.
Burned == (1..policies_created) \ DOMAIN policies

\* C23: burn destroys a policy for good.  Every policy that exists was
\* created; a burn call removes exactly the policy it is given and no other
\* call removes any; a policy that was burned stays out of existence whatever
\* is called next, create_policy included, so that no check_access,
\* increment_usage, revoke_policy or second burn can be made on it.
C23_BurnIsFinal ==
  /\ DOMAIN policies \subseteq 1..policies_created
  /\ \A sender \in Senders, c \in AllPolicyCalls \cup CreatePolicyCalls :
       LET w == Result(sender, <<c>>)
       IN /\ \A id \in Burned : id \notin DOMAIN w.policies
          /\ c.op = "burn" =>
               /\ w.abort = OK
               /\ w.policies =
                    [id \in DOMAIN policies \ {c.policy_id} |-> policies[id]]
               /\ c.policy_id \notin DOMAIN w.policies
          /\ c.op # "burn" => DOMAIN policies \subseteq DOMAIN w.policies

\* The one policy that was created has been burned.
C23_Witness ==
  /\ LastWas("burn", OK)
  /\ policies_created >= 1
  /\ last.calls[1].policy_id \in Burned

(***************************************************************************)
(* Events of a purchase.                                                   *)
(***************************************************************************)
\* C24: every purchase_dataset call that succeeds emits exactly one
\* DatasetPurchased event carrying the price, the platform fee and the
\* creator royalty, followed by exactly one DecryptionGranted event carrying
\* the dataset id, the sender as buyer and the listing's seal_policy_id; a
\* call that aborts emits nothing.  A purchase succeeds only on a dataset no
\* purchase has settled before, so at most one DecryptionGranted event is
\* ever emitted per dataset id.
C24_PurchaseEvents ==
  /\ \A sender \in Senders, c \in PurchaseCalls :
       LET w == Result(sender, <<c>>)
           d == c.dataset_id
       IN /\ w.abort = OK =>
               /\ Len(w.events) = 2
               /\ w.events[1].type = "DatasetPurchased"
               /\ w.events[1].dataset_id = d
               /\ w.events[1].buyer = sender
               /\ w.events[1].amount = datasets[d].price
               /\ w.events[1].platform_fee = (datasets[d].price * 3) \div 100
               /\ w.events[1].creator_royalty =
                    datasets[d].price - w.events[1].platform_fee
               /\ w.events[2] =
                    [type |-> "DecryptionGranted", dataset_id |-> d,
                     buyer |-> sender,
                     seal_policy_id |-> datasets[d].seal_policy_id]
               /\ settled[d] = <<>>
               /\ w.settled[d] # <<>>
          /\ w.abort # OK => w.events = <<>>
  /\ last.status # OK => last.events = <<>>
  /\ \A i \in 1..Len(last.events) :
       last.events[i].type = "DecryptionGranted" =>
         /\ i = 2 /\ Len(last.events) = 2
         /\ Sold(last.events[i].dataset_id)

\* A purchase has emitted its two events and a second purchase of the same
\* dataset would abort.
C24_Witness ==
  /\ LastWas("purchase_dataset", OK)
  /\ Len(last.events) = 2
  /\ last.events[2].type = "DecryptionGranted"
  /\ last.events[2].buyer = 2
  /\ last.events[2].seal_policy_id = 7
  /\ Sold(last.events[2].dataset_id)

(***************************************************************************)
(* Royalty runs: configurations are created and payments split.            *)
(***************************************************************************)
\* Number of payments split in a run.
MaxSplits == 1

\* (creator_bps, platform_bps, reseller_bps): three that sum to 10000, two
\* that do not, all zero, and one whose sum does not fit in a u64.
ConfigInputs ==
  {<<1000, 300, 8700>>, <<0, 0, 10000>>, <<3333, 3333, 3334>>,
   <<1000, 300, 8000>>, <<5000, 5000, 1>>, <<0, 0, 0>>, <<MAX_U64, 1, 0>>}

\* Values of the payment coin, up to the largest a u64 holds.
Totals ==
  {0, 1, 33, 100, MAX_U64 \div 1000, MAX_U64 \div 1000 + 1, MAX_U64}

CreateConfigCalls ==
  {CreateConfigCall(b[1], b[2], b[3]) : b \in ConfigInputs}

SplitPaymentCalls ==
  {SplitPaymentCall(cfg, total, 1, 3, 2) : cfg \in configs, total \in Totals}

CreateConfig ==
  \E sender \in Senders, c \in CreateConfigCalls : Tx(sender, <<c>>)

DefaultConfig ==
  \E sender \in Senders : Tx(sender, <<DefaultConfigCall>>)

SplitPayment ==
  /\ splits_made < MaxSplits
  /\ \E sender \in Senders, c \in SplitPaymentCalls : Tx(sender, <<c>>)

NextRoyalty ==
  \/ CreateConfig
  \/ DefaultConfig
  \/ SplitPayment

SpecRoyalty == Init /\ [][NextRoyalty]_vars

(***************************************************************************)
(* Properties of the royalty module.                                       *)
(***************************************************************************)
\* C25: every RoyaltyConfig that exists has creator_bps + platform_bps +
\* reseller_bps = 10000: create_config aborts, creating nothing, for every
\* other sum and returns the configuration it was asked for otherwise, and
\* default_config yields (1000, 300, 8700).
C25_ConfigSumsTo10000 ==
  /\ \A cfg \in configs :
       cfg.creator_bps + cfg.platform_bps + cfg.reseller_bps = 10000
  /\ \A sender \in Senders, c \in CreateConfigCalls :
       LET w == Result(sender, <<c>>)
           cfg == [creator_bps |-> c.creator_bps,
                   platform_bps |-> c.platform_bps,
                   reseller_bps |-> c.reseller_bps]
       IN IF c.creator_bps + c.platform_bps + c.reseller_bps = 10000
          THEN w.abort = OK /\ w.returned = <<cfg>>
                 /\ w.configs = configs \cup {cfg}
          ELSE w.abort # OK /\ NoEffect(w)
  /\ \A sender \in Senders :
       LET w == Result(sender, <<DefaultConfigCall>>)
       IN /\ w.abort = OK
          /\ w.returned = <<[creator_bps |-> 1000, platform_bps |-> 300,
                             reseller_bps |-> 8700]>>

\* The default configuration exists next to another one, and a request for
\* shares that sum to 10001 has just been refused.
C25_Witness ==
  /\ LastWas("create_config", E_INVALID_PERCENTAGES)
  /\ [creator_bps |-> 1000, platform_bps |-> 300, reseller_bps |-> 8700]
       \in configs
  /\ Cardinality(configs) >= 2

\* C30 as claimed: for every configuration and every value of the payment,
\* split_payment transfers floor(total * creator_bps / 10000) to the creator,
\* floor(total * platform_bps / 10000) to the platform and all the rest to
\* the reseller, three amounts that sum to the value of the payment.
C30_Original ==
  \A sender \in Senders, c \in SplitPaymentCalls :
    LET w == Result(sender, <<c>>)
        total == c.paid
    IN /\ w.abort = OK
       /\ SumAmounts(w.transfers) = total
       /\ w.received[2] - received[2] + w.received[1] - received[1]
            + w.received[3] - received[3] = total
       /\ 10000 * (w.received[1] - received[1]) <= total * c.creator_bps
       /\ total * c.creator_bps < 10000 * (w.received[1] - received[1] + 1)
       /\ 10000 * (w.received[3] - received[3]) <= total * c.platform_bps
       /\ total * c.platform_bps < 10000 * (w.received[3] - received[3] + 1)

(***************************************************************************)
(* Proof and public-input encoders of the backend (api/proof.ts).  A       *)
(* string is a sequence of characters, a hexadecimal string a sequence of *)
(* digit values 0..15, and a byte array a sequence of numbers 0..255.      *)
(***************************************************************************)
\* Bytes of a scalar on the wire: 32 in the source, scaled down here.
ScalarBytes == 2

\* Hexadecimal digits of a scalar on the wire: 64 in the source.
HexLen == 2 * ScalarBytes

SYNTAX_ERROR == "SyntaxError"

DecimalDigits == <<"0", "1", "2", "3", "4", "5", "6", "7", "8", "9">>

IsDecimal(v) ==
  \A i \in 1..Len(v) : \E k \in 1..10 : DecimalDigits[k] = v[i]

DigitValue(c) == (CHOOSE k \in 1..10 : DecimalDigits[k] = c) - 1

\* BigInt(v) of a decimal string; the empty string is 0n, and a string
\* that is not a number throws a SyntaxError (IsDecimal is its guard).
RECURSIVE BigInt(_)
BigInt(v) ==
  IF Len(v) = 0 THEN 0
  ELSE 10 * BigInt(SubSeq(v, 1, Len(v) - 1)) + DigitValue(v[Len(v)])

\* bi.toString(16): the hexadecimal digits of bi, without leading zeros.
RECURSIVE toString16(_)
toString16(bi) ==
  IF bi < 16 THEN <<bi>> ELSE toString16(bi \div 16) \o <<bi % 16>>

\* hex.slice(start)
slice(hex, start) == SubSeq(hex, start + 1, Len(hex))

\* hex.padStart(n, "0")
RECURSIVE padStart(_, _)
padStart(hex, n) == IF Len(hex) >= n THEN hex ELSE padStart(<<0>> \o hex, n)

\* parseInt(hex.substr(i * 2, 2), 16)
parseInt16(hex, i) == 16 * hex[2 * i + 1] + hex[2 * i + 2]

\* The hexadecimal string both helpers build from v: the digits of the
\* number, cut to their last 64 when there are more, padded to 64.
normalized_hex(v) ==
  LET hex == toString16(BigInt(v))
  IN padStart(IF Len(hex) > HexLen THEN slice(hex, Len(hex) - HexLen)
              ELSE hex,
              HexLen)

feTo32be(v) ==
  LET hex == normalized_hex(v)
  IN [i \in 1..ScalarBytes |-> parseInt16(hex, i - 1)]

\* beBytes.reverse()
reverse(bytes) == [i \in 1..Len(bytes) |-> bytes[Len(bytes) + 1 - i]]

feTo32le_unreversed(v) ==
  LET hex == normalized_hex(v)
  IN [i \in 1..ScalarBytes |-> parseInt16(hex, i - 1)]

feTo32le(v) ==
  LET hex == normalized_hex(v)
      beBytes == [i \in 1..ScalarBytes |-> parseInt16(hex, i - 1)]
  IN reverse(beBytes)

\* The helper of the compiled formatPublicSignalsForSui (dist/api/proof.js).
feTo32be_compiled(v) ==
  LET hex == normalized_hex(v)
  IN [i \in 1..ScalarBytes |-> parseInt16(hex, i - 1)]

\* total.set(p, offset) for each part in turn.
RECURSIVE concat(_)
concat(parts) ==
  IF Len(parts) = 0 THEN <<>> ELSE Head(parts) \o concat(Tail(parts))

\* What an encoder hands back: its bytes, or the error BigInt threw.
Encoding(strings, bytes) ==
  IF \E i \in 1..Len(strings) : ~IsDecimal(strings[i])
  THEN [status |-> SYNTAX_ERROR, bytes |-> <<>>]
  ELSE [status |-> OK, bytes |-> bytes]

proof_parts_xy(proof) ==
  <<proof.pi_a[1], proof.pi_a[2],
    proof.pi_b[1][2], proof.pi_b[1][1], proof.pi_b[2][2], proof.pi_b[2][1],
    proof.pi_c[1], proof.pi_c[2]>>

\* The coordinates in the order of `parts`; pi_b[1][1] of the source is
\* pi_b[2][2] here, sequences being numbered from 1.
proof_parts(proof) ==
  <<proof.pi_a[1], proof.pi_a[2],
    proof.pi_b[2][2], proof.pi_b[2][1], proof.pi_b[1][2], proof.pi_b[1][1],
    proof.pi_c[1], proof.pi_c[2]>>

formatProofForSui(proof) ==
  LET parts == proof_parts(proof)
  IN Encoding(parts,
              concat([i \in 1..Len(parts) |-> feTo32be(parts[i])]))

formatPublicSignalsForSui(signals) ==
  Encoding(signals,
           concat([i \in 1..Len(signals) |-> feTo32le(signals[i])]))

formatPublicSignalsForSui_compiled(signals) ==
  Encoding(signals,
           concat([i \in 1..Len(signals) |-> feTo32be_compiled(signals[i])]))

(***************************************************************************)
(* Encoder runs: each step encodes one proof or one list of signals.       *)
(***************************************************************************)
\* Longest list of public signals encoded.
MaxSignals == 2

\* The first number that does not fit in a scalar on the wire: 2^256 in
\* the source.
ScalarLimit == 256 ^ ScalarBytes

\* The decimal string of a number, as the prover prints a field element.
RECURSIVE Dec(_)
Dec(n) ==
  IF n < 10 THEN <<DecimalDigits[n + 1]>>
  ELSE Dec(n \div 10) \o <<DecimalDigits[(n % 10) + 1]>>

\* Field elements as strings: small ones, the largest that fits, two that
\* do not fit, one written with a leading zero, and one that is no number.
Scalars ==
  {Dec(0), Dec(1), Dec(258), Dec(ScalarLimit - 1), Dec(ScalarLimit),
   Dec(ScalarLimit + 258), <<"0", "7">>, <<"x">>}

\* A proof as the prover prints it, with eight different coordinates.
ReferenceProof ==
  [pi_a |-> <<Dec(258), Dec(515), Dec(1)>>,
   pi_b |-> <<<<Dec(772), Dec(1029)>>, <<Dec(1286), Dec(1543)>>,
              <<Dec(1), Dec(0)>>>>,
   pi_c |-> <<Dec(1800), Dec(2057), Dec(1)>>]

WithCoordinate(proof, k, v) ==
  CASE k = 1 -> [proof EXCEPT !.pi_a[1] = v]
    [] k = 2 -> [proof EXCEPT !.pi_a[2] = v]
    [] k = 3 -> [proof EXCEPT !.pi_b[1][1] = v]
    [] k = 4 -> [proof EXCEPT !.pi_b[1][2] = v]
    [] k = 5 -> [proof EXCEPT !.pi_b[2][1] = v]
    [] k = 6 -> [proof EXCEPT !.pi_b[2][2] = v]
    [] k = 7 -> [proof EXCEPT !.pi_c[1] = v]
    [] k = 8 -> [proof EXCEPT !.pi_c[2] = v]

Proofs ==
  {WithCoordinate(ReferenceProof, k, v) : k \in 1..8, v \in Scalars}
    \cup {ReferenceProof}

SignalLists == UNION {[1..n -> Scalars] : n \in 0..MaxSignals}

Encoded(op, input, out) ==
  /\ last' = [calls |-> <<[op |-> op, input |-> input]>>,
              status |-> out.status, events |-> <<>>, transfers |-> <<>>,
              returned |-> <<out.bytes>>]
  /\ UNCHANGED <<datasets, total_datasets, proofs, total_proofs, received,
                 spent, settled, ever_valid, policies, policies_created,
                 configs, splits_made, backend>>

FormatProofForSui ==
  \E proof \in Proofs :
    Encoded("formatProofForSui", proof, formatProofForSui(proof))

FormatPublicSignalsForSui ==
  \E signals \in SignalLists :
    Encoded("formatPublicSignalsForSui", signals,
            formatPublicSignalsForSui(signals))

FormatPublicSignalsForSuiCompiled ==
  \E signals \in SignalLists :
    Encoded("dist/formatPublicSignalsForSui", signals,
            formatPublicSignalsForSui_compiled(signals))

NextCodec ==
  \/ FormatProofForSui
  \/ FormatPublicSignalsForSui
  \/ FormatPublicSignalsForSuiCompiled

SpecCodec == Init /\ [][NextCodec]_vars

(***************************************************************************)
(* Properties of the encoders.                                             *)
(***************************************************************************)
\* The bytes of scalar number k (from 1) of an encoding.
Chunk(bytes, k) == SubSeq(bytes, (k - 1) * ScalarBytes + 1, k * ScalarBytes)

\* A number as a fixed-width big-endian and little-endian integer.
BigEndian(n) ==
  [i \in 1..ScalarBytes |-> (n \div (256 ^ (ScalarBytes - i))) % 256]

LittleEndian(n) == [i \in 1..ScalarBytes |-> (n \div (256 ^ (i - 1))) % 256]

RECURSIVE FromBigEndian(_)
FromBigEndian(bytes) ==
  IF Len(bytes) = 0 THEN 0
  ELSE 256 * FromBigEndian(SubSeq(bytes, 1, Len(bytes) - 1))
         + bytes[Len(bytes)]

RECURSIVE FromLittleEndian(_)
FromLittleEndian(bytes) ==
  IF Len(bytes) = 0 THEN 0
  ELSE Head(bytes) + 256 * FromLittleEndian(Tail(bytes))

\* The coordinates of a proof by name: pi_a and pi_c are points (x, y) of
\* the first group, pi_b is the point ((x.c1, x.c0), (y.c1, y.c0)) of the
\* second, as the encoder reads the prover's output.
DocumentedLayout(proof) ==
  LET A == [x |-> proof.pi_a[1], y |-> proof.pi_a[2]]
      B == [x |-> [c1 |-> proof.pi_b[1][1], c0 |-> proof.pi_b[1][2]],
            y |-> [c1 |-> proof.pi_b[2][1], c0 |-> proof.pi_b[2][2]]]
      C == [x |-> proof.pi_c[1], y |-> proof.pi_c[2]]
  IN <<A.x, A.y, B.y.c0, B.y.c1, B.x.c0, B.x.c1, C.x, C.y>>

Fits(v) == IsDecimal(v) /\ BigInt(v) < ScalarLimit

SignalEncoders ==
  {"formatPublicSignalsForSui", "dist/formatPublicSignalsForSui"}

Encoders == SignalEncoders \cup {"formatProofForSui"}

\* The strings the last encoder call was given.
LastStrings ==
  IF last.calls[1].op = "formatProofForSui"
  THEN DocumentedLayout(last.calls[1].input)
  ELSE last.calls[1].input

C27_Original ==
  \A op \in SignalEncoders :
    LastWas(op, OK) =>
      LET signals == last.calls[1].input
          bytes == last.returned[1]
      IN /\ Len(bytes) = Len(signals) * ScalarBytes
         /\ \A k \in 1..Len(signals) :
              Fits(signals[k]) =>
                Chunk(bytes, k) = LittleEndian(BigInt(signals[k]))

\* C28 as claimed: encoding a proof coordinate or a signal that is 2^256 or
\* more is an error; no encoder returns bytes for it.
C28_Original ==
  \A op \in Encoders :
    (/\ Len(last.calls) = 1
     /\ last.calls[1].op = op
     /\ \E k \in 1..Len(LastStrings) :
          IsDecimal(LastStrings[k]) /\ BigInt(LastStrings[k]) >= ScalarLimit)
      => last.status # OK

\* The proof and the signals that bytes in the documented layout stand for.
decodeProof(bytes) ==
  LET n == [k \in 1..8 |-> FromBigEndian(Chunk(bytes, k))]
  IN [pi_a |-> <<n[1], n[2]>>,
      pi_b |-> <<<<n[6], n[5]>>, <<n[4], n[3]>>>>,
      pi_c |-> <<n[7], n[8]>>]

decodePublicInputs(bytes) ==
  [k \in 1..(Len(bytes) \div ScalarBytes) |->
     FromLittleEndian(Chunk(bytes, k))]

VerifyOps == {"verify_data_authenticity", "verify_quality_proof"}

\* Lengths on both sides of the two checks made before the pairing.
EdgeVkLens == {127, 128}
EdgeInputLens == {32, 33, 64}

\* C31: a verification entry point that commits leaves, under the proof
\* bytes it was given, a record whose family is that of the entry point (1
\* for verify_data_authenticity, 2 for verify_quality_proof) and whose
\* submitter is the sender of the transaction, whatever the verification
\* key, the public inputs and the verdict are; its ProofVerified event
\* carries the same family and sender.
C31_RecordCarriesFamilyAndSender ==
  /\ \A sender \in Senders, k \in ProofKeys, op \in VerifyOps,
        vk_len \in EdgeVkLens, vk_type \in {1, 2},
        inputs_len \in EdgeInputLens, pairing \in {"true", "false"} :
       LET c == VerifyCall(op, k, vk_len, vk_type, inputs_len, pairing)
           w == Result(sender, <<c>>)
           family == IF op = "verify_data_authenticity" THEN 1 ELSE 2
       IN /\ w.abort = OK
          /\ DOMAIN w.proofs = DOMAIN proofs \cup {k}
          /\ w.proofs[k].creator = sender
          /\ w.proofs[k].proof_type = family
          /\ get_proof_record(w, k).creator = sender
          /\ get_proof_record(w, k).proof_type = family
          /\ w.events[Len(w.events)].creator = sender
          /\ w.events[Len(w.events)].proof_type = family
  /\ \A op \in VerifyOps :
       LastWas(op, OK) =>
         LET rec == proofs[last.calls[1].proof_key]
         IN /\ rec.proof_type = (IF op = "verify_data_authenticity" THEN 1
                                 ELSE 2)
            /\ rec.creator = last.events[1].creator
            /\ rec.creator = last.events[2].creator

\* A quality proof submitted by sender 2 has just been recorded valid under
\* family 2 with submitter 2.
C31_Witness ==
  /\ LastWas("verify_quality_proof", OK)
  /\ last.events[1].creator = 2
  /\ proofs[last.calls[1].proof_key]
       = [creator |-> 2, proof_type |-> 2, verified_at |-> 0,
          is_valid |-> TRUE]

\* C34: is_proof_verified is true of a key only if the latest submission of
\* that key was a verify_data_authenticity or verify_quality_proof of exactly
\* those proof bytes, given a key of at least 128 bytes and inputs of a
\* multiple of 32 bytes, for which the pairing check returned true.  A
\* submission that fails these checks, and every batch submission, leaves
\* the keys it names not verified, whatever they were before, and no
\* submission changes the verdict of a key it does not name.  So a record
\* that is valid carries the timestamp 0 and the family 1 or 2 that only the
\* two verification entry points write.
C34_RegistrySoundness ==
  /\ \A k \in ProofKeys : RecordedValid(k) => k \in ever_valid
  /\ \A sender \in Senders, k \in ProofKeys, op \in VerifyOps,
        vk_len \in EdgeVkLens, vk_type \in {1, 2},
        inputs_len \in EdgeInputLens, pairing \in Pairings :
       LET c == VerifyCall(op, k, vk_len, vk_type, inputs_len, pairing)
           w == Result(sender, <<c>>)
       IN /\ w.abort = OK =>
               (is_proof_verified(w, k)
                  <=> (vk_len >= 128 /\ inputs_len % 32 = 0
                         /\ pairing = "true"))
          /\ w.abort # OK => w.proofs = proofs
          /\ \A other \in QueryKeys \ {k} :
               is_proof_verified(w, other) = is_proof_verified(World, other)
  /\ \A sender \in Senders, c \in RegistryBatchCalls, pairing \in Pairings :
       LET w == Result(sender, <<[c EXCEPT !.pairing = pairing]>>)
       IN /\ w.abort = OK
          /\ \A k \in KeysOf(c) : ~is_proof_verified(w, k)
          /\ \A other \in QueryKeys \ KeysOf(c) :
               is_proof_verified(w, other) = is_proof_verified(World, other)
  /\ \A k \in ProofKeys :
       RecordedValid(k) =>
         /\ proofs[k].verified_at = 0
         /\ proofs[k].proof_type \in {1, 2}
         /\ \A op \in VerifyOps :
              (LastWas(op, OK) /\ last.calls[1].proof_key = k) =>
                /\ last.calls[1].vk_len >= 128
                /\ last.calls[1].inputs_len % 32 = 0

\* A proof given with a 128-byte key and 32 bytes of inputs has just been
\* recorded valid by verify_data_authenticity.
C34_Witness ==
  /\ LastWas("verify_data_authenticity", OK)
  /\ last.calls[1].vk_len = 128
  /\ last.calls[1].inputs_len = 32
  /\ RecordedValid(last.calls[1].proof_key)
  /\ is_proof_verified(World, last.calls[1].proof_key)

\* C35 as claimed: a verification entry point records a proof as valid
\* under a family only when the verification key it was given carries the
\* tag of that family.
C35_Original ==
  \A sender \in Senders, k \in ProofKeys, op \in VerifyOps,
     vk_type \in Families :
    LET c == VerifyCall(op, k, 128, vk_type, 32, "true")
        w == Result(sender, <<c>>)
    IN (w.abort = OK /\ is_proof_verified(w, k)) =>
         w.proofs[k].proof_type = vk_type

(***************************************************************************)
(* Further properties of the access policies and of the marketplace.       *)
(***************************************************************************)
\* C36 as claimed: increment_usage succeeds, and emits AccessGranted, only
\* for an accessor for which check_access on that policy at that time is
\* true; so every AccessGranted event names an accessor of the policy's
\* allowed set.
C36_Original ==
  /\ \A sender \in Senders, c \in PolicyCalls("increment_usage") :
       LET w == Result(sender, <<c>>)
       IN w.abort = OK =>
            check_access(policies[c.policy_id], c.addr, c.now)
  /\ \A i \in 1..Len(last.events) :
       (last.events[i].type = "AccessGranted"
          /\ last.events[i].policy_id \in DOMAIN policies) =>
         last.events[i].accessor
           \in policies[last.events[i].policy_id].allowed_addresses

\* C37 as claimed: a listing that is for sale can be bought at every price
\* list_dataset accepts: purchase_dataset with a payment of at least the
\* price succeeds, the product price * platform_fee_percent always fitting
\* in 64 bits.
C37_Original ==
  \A sender \in Senders, d \in DOMAIN datasets, paid \in Payments,
     treasury \in Treasuries :
    (datasets[d].is_available /\ paid >= datasets[d].price) =>
      Result(sender, <<PurchaseCall(d, paid, treasury)>>).abort = OK

HTTP_OK == "200"
HTTP_BAD_REQUEST == "400"
HTTP_SERVER_ERROR == "500"
VALIDATION_ERROR == "400 ValidationError"

toLowerCase(s) ==
  [i \in 1..Len(s) |->
     CASE s[i] = "A" -> "a" [] s[i] = "B" -> "b" [] OTHER -> s[i]]

\* What the fullnode answers for a digest: the transactions of the chain, a
\* digest it does not know making the client throw.
getTransactionBlock(digest) ==
  CASE digest = "success_by_a" ->
         [found |-> TRUE, status |-> "success", sender |-> <<"a">>]
    [] digest = "success_by_A" ->
         [found |-> TRUE, status |-> "success", sender |-> <<"A">>]
    [] digest = "success_no_sender" ->
         [found |-> TRUE, status |-> "success", sender |-> <<>>]
    [] digest = "failure_by_a" ->
         [found |-> TRUE, status |-> "failure", sender |-> <<"a">>]
    [] OTHER -> [found |-> FALSE, status |-> "", sender |-> <<>>]

\* "true", "false", or "throws" when the lookup fails.
verifyTransaction(digest) ==
  LET tx == getTransactionBlock(digest)
  IN IF ~tx.found THEN "throws"
     ELSE IF tx.status = "success" THEN "true" ELSE "false"

Response(b, status, body) == [backend |-> b, status |-> status, body |-> body]

makeGrantKey(datasetId, buyer) == datasetId \o <<":">> \o toLowerCase(buyer)

grantAccess(b, datasetId, buyer) ==
  [b EXCEPT !.accessGrants = @ \cup {makeGrantKey(datasetId, buyer)}]

checkAccess(b, datasetId, buyer) ==
  makeGrantKey(datasetId, buyer) \in b.accessGrants

\* POST /confirm; body.marketplace is what queryMarketplaceDatasets does.
confirm(b, body) ==
  IF body.datasetId = <<>> \/ body.transactionDigest = ""
  THEN Response(b, VALIDATION_ERROR, [success |-> FALSE])
  ELSE LET ok == IF b.ZK_FAKE_VALID = "1" THEN "true"
                 ELSE verifyTransaction(body.transactionDigest)
           granted == body.buyerAddress # <<>>
           b1 == IF granted
                 THEN grantAccess(b, body.datasetId, body.buyerAddress)
                 ELSE b
       IN CASE ok = "throws" -> Response(b, HTTP_SERVER_ERROR, [success |-> FALSE])
            [] ok = "false" ->
                 Response(b, HTTP_BAD_REQUEST,
                          [success |-> FALSE, access_granted |-> FALSE])
            [] ok = "true" /\ body.marketplace = "throws" ->
                 Response(b1, HTTP_SERVER_ERROR, [success |-> FALSE])
            [] OTHER ->
                 Response(b1, HTTP_OK,
                          [success |-> TRUE, access_granted |-> granted])

\* GET /access/:datasetId
access(b, datasetId, buyer) ==
  IF datasetId = <<>> \/ buyer = <<>>
  THEN Response(b, VALIDATION_ERROR, [has_access |-> FALSE])
  ELSE Response(b, HTTP_OK, [has_access |-> checkAccess(b, datasetId, buyer)])

\* INSERT INTO email_attestations; body.db is what the database does.
createEmailAttestation(b, body) ==
  [b EXCEPT !.attestations =
     Append(@, [address |-> toLowerCase(body.address),
                email_hash |-> body.emailHash,
                domain |-> toLowerCase(body.domain),
                circuit_type |-> "email_attestation",
                transaction_digest |-> body.transactionDigest])]

sender_matches_any(sender, address) == TRUE

sender_matches(sender, address) ==
  sender # <<>> /\ toLowerCase(sender) = toLowerCase(address)

\* POST /attest
attest(b, body) ==
  IF body.address = <<>> \/ body.emailHash = "" \/ body.domain = <<>>
       \/ body.transactionDigest = ""
  THEN Response(b, VALIDATION_ERROR, "Missing required fields")
  ELSE LET tx == getTransactionBlock(body.transactionDigest)
       IN CASE ~tx.found ->
                 Response(b, VALIDATION_ERROR,
                          "Failed to verify Sui transaction digest")
            [] tx.status # "success" ->
                 Response(b, VALIDATION_ERROR,
                          "Provided transaction digest did not succeed")
            [] ~sender_matches(tx.sender, body.address) ->
                 Response(b, VALIDATION_ERROR,
                          "Provided transaction digest does not belong")
            [] body.db = "error" -> Response(b, HTTP_SERVER_ERROR, "")
            [] OTHER -> Response(createEmailAttestation(b, body), HTTP_OK,
                                 toLowerCase(body.address))

(***************************************************************************)
(* Backend runs: requests to /confirm, /access and /attest.                *)
(***************************************************************************)
\* Rows of email_attestations in a run.
MaxAttestations == 1

DatasetIdStrings == {<<"d">>, <<"d", ":", "b">>}
BuyerStrings == {<<"a">>, <<"A">>, <<"b", ":", "a">>}
Digests == {"success_by_a", "success_by_A", "success_no_sender",
            "failure_by_a", "unknown"}

ConfirmBodies ==
  {[datasetId |-> d, transactionDigest |-> t, buyerAddress |-> a,
    marketplace |-> "ok"] :
     d \in DatasetIdStrings \cup {<<>>},
     t \in {"success_by_a", "failure_by_a", "unknown", ""},
     a \in BuyerStrings \cup {<<>>}}
    \cup {[datasetId |-> <<"d">>, transactionDigest |-> "success_by_a",
           buyerAddress |-> <<"a">>, marketplace |-> "throws"]}

AttestBodies ==
  {[address |-> a, emailHash |-> "h", domain |-> <<"B">>,
    transactionDigest |-> t, db |-> db] :
     a \in {<<"a">>, <<"A">>, <<"b">>, <<>>}, t \in Digests \cup {""},
     db \in {"ok", "error"}}

Answered(op, body, r, verified) ==
  /\ backend' = [r.backend EXCEPT !.verified_confirms = @ \cup verified]
  /\ last' = [calls |-> <<[op |-> op, body |-> body]>>, status |-> r.status,
              events |-> <<>>, transfers |-> <<>>, returned |-> <<r.body>>]
  /\ UNCHANGED <<datasets, total_datasets, proofs, total_proofs, received,
                 spent, settled, ever_valid, policies, policies_created,
                 configs, splits_made>>

Confirm ==
  \E body \in ConfirmBodies :
    Answered("/confirm", body, confirm(backend, body),
             IF /\ body.datasetId # <<>>
                /\ body.transactionDigest # ""
                /\ backend.ZK_FAKE_VALID # "1"
                /\ verifyTransaction(body.transactionDigest) = "true"
             THEN {<<body.datasetId, toLowerCase(body.buyerAddress)>>}
             ELSE {})

Access ==
  \E d \in DatasetIdStrings \cup {<<>>}, a \in BuyerStrings \cup {<<>>} :
    Answered("/access", [datasetId |-> d, buyer |-> a],
             access(backend, d, a), {})

Attest ==
  /\ Len(backend.attestations) < MaxAttestations
  /\ \E body \in AttestBodies :
       Answered("/attest", body, attest(backend, body), {})

NextBackend ==
  \/ Confirm
  \/ Access
  \/ Attest

InitBackend ==
  /\ datasets = EmptyTable
  /\ total_datasets = 0
  /\ proofs = EmptyTable
  /\ total_proofs = 0
  /\ received = [a \in Addr |-> 0]
  /\ spent = [a \in Addr |-> 0]
  /\ settled = [d \in DatasetIds |-> <<>>]
  /\ ever_valid = {}
  /\ policies = EmptyTable
  /\ policies_created = 0
  /\ configs = {}
  /\ splits_made = 0
  /\ last = [calls |-> <<>>, status |-> OK, events |-> <<>>, transfers |-> <<>>,
             returned |-> <<>>]
  /\ \E setting \in {"0", "1"} :
       backend = [accessGrants |-> {}, attestations |-> <<>>,
                  verified_confirms |-> {}, ZK_FAKE_VALID |-> setting]

SpecBackend == InitBackend /\ [][NextBackend]_vars

(***************************************************************************)
(* Properties of the backend.                                              *)
(***************************************************************************)
\* C32: /attest stores a row only if the digest's transaction was found,
\* executed with status success and was sent by the claimed address, letter
\* case apart; in every other case, a failed lookup included, it answers
\* with a validation error and the table is as it was.  So every row of the
\* table names a successful transaction of the row's address.
C32_AttestOnlyVerified ==
  /\ \A body \in AttestBodies :
       LET r == attest(backend, body)
           tx == getTransactionBlock(body.transactionDigest)
           verified == /\ tx.found
                       /\ tx.status = "success"
                       /\ toLowerCase(tx.sender) = toLowerCase(body.address)
       IN /\ r.backend.attestations # backend.attestations => verified
          /\ ~verified => r.status = VALIDATION_ERROR /\ r.backend = backend
  /\ \A i \in 1..Len(backend.attestations) :
       LET row == backend.attestations[i]
           tx == getTransactionBlock(row.transaction_digest)
       IN tx.found /\ tx.status = "success"
            /\ toLowerCase(tx.sender) = row.address

\* An attestation for address "A" was stored, under "a", on a successful
\* transaction sent by "a".
C32_Witness ==
  /\ LastWas("/attest", HTTP_OK)
  /\ last.calls[1].body.address = <<"A">>
  /\ last.calls[1].body.transactionDigest = "success_by_a"
  /\ Len(backend.attestations) = 1
  /\ backend.attestations[1].address = <<"a">>

\* C33 as claimed: the access check is true for a dataset id and a buyer
\* only if an earlier /confirm for that dataset id and that buyer, letter
\* case apart, carried a digest that was verified as successful; and a
\* /confirm whose transaction is not successful answers with an error and
\* grants nothing.
C33_Original ==
  /\ \A d \in DatasetIdStrings, a \in BuyerStrings :
       checkAccess(backend, d, a) =>
         <<d, toLowerCase(a)>> \in backend.verified_confirms
  /\ \A body \in ConfirmBodies :
       (/\ body.datasetId # <<>>
        /\ body.transactionDigest # ""
        /\ verifyTransaction(body.transactionDigest) # "true") =>
         LET r == confirm(backend, body)
         IN r.status # HTTP_OK /\ r.backend.accessGrants = backend.accessGrants

====
